---- MODULE Spec2Model ----
(***************************************************************************)
(* A model of makefilegen.py: the UniqueList container, the Builder that   *)
(* renders and runs one compiler command, and the MakefileGenerator that   *)
(* accumulates a Makefile document and writes it in a fixed section order. *)
(*                                                                         *)
(* Python strings are modelled as sequences of one-character strings, so   *)
(* that joining, searching for a character and comparing two texts are     *)
(* computed character by character, as the interpreter computes them.      *)
(***************************************************************************)
EXTENDS Integers, Sequences, FiniteSets, TLC

VARIABLES
    ul,        \* the UniqueList under test (a Python list)
    ulPrev,    \* the list as it was before the last operation
    ulOp,      \* the last operation applied to the list, with its arguments
               \* (for kind "init": the iterable given to the constructor)
    builder,   \* the Builder object: one field per attribute
    bPrev,     \* the Builder as it was before the last call
    bLast,     \* the last Builder call: method, arguments, exception raised
    bOps,      \* number of Builder calls made so far
    fs,        \* the file system: existing directories and files
    trace,     \* what the last Builder call printed, spawned and removed
    gen,       \* the MakefileGenerator object: one field per attribute
    gPrev,     \* the generator as it was before the last call
    gLast,     \* the last generator call: method, arguments, exception raised
    gOps,      \* number of generator calls made so far
    gLog,      \* every Var object stored in vars so far, in order
    writer,    \* the MakefileWriter: lines written, and whether it is closed
    VERSION,   \* the version of make, in hundredths (3.81 is 381)
    varObj,    \* the Var object under test, or NoVar
    varLast,   \* the last call on a Var class or object, and what it gave
    cli,       \* a run of the command line: the arguments, then how it ended
    autoLast   \* the last call of a module-level automatic-variable function

ulVars == <<ul, ulPrev, ulOp>>

bVars == <<builder, bPrev, bLast, bOps, fs, trace>>

gVars == <<gen, gPrev, gLast, gOps, gLog, writer, VERSION>>

vVars == <<varObj, varLast>>

mVars == <<cli, autoLast>>

vars == <<ul, ulPrev, ulOp, builder, bPrev, bLast, bOps, fs, trace,
          gen, gPrev, gLast, gOps, gLog, writer, VERSION, varObj, varLast,
          cli, autoLast>>

(***************************************************************************)
(* Bounds of the model.                                                    *)
(***************************************************************************)
MaxLen == 3          \* longest iterable given to a UniqueList constructor or extend
MaxBuilderOps == 3   \* number of calls made on one Builder
MaxTargetOps == 4    \* number of calls on a generator that is given targets only
MaxVarOps == 4       \* number of calls on a generator that is given variables only
MaxDocOps == 5       \* number of calls on a generator that fills the sections
MaxDirOps == 3       \* number of calls on a generator that is given directories
MaxRuleOps == 3      \* number of calls on a generator that is given pattern rules
MaxValues == 2       \* number of values given to a Var constructor
MaxBlockOps == 3     \* number of calls on a generator given includes and blocks
MaxKwOps == 3        \* number of calls on a generator given keyword arguments
MaxFlagOps == 3      \* number of calls on a generator given flags and directories
MaxPartOps == 2      \* number of calls on each object given several entries at once
MaxTokenLen == 2     \* length of a token given to auto_var

(***************************************************************************)
(* Python list primitives.                                                 *)
(***************************************************************************)

\* item in self (list.__contains__, equality based)
In(item, self) == \E i \in 1..Len(self) : self[i] = item

\* list.insert(index, item): a negative index counts from the end, and an
\* index outside the list is clamped to its ends
list_insert(self, index, item) ==
    LET n == Len(self)
        i0 == IF index < 0 THEN index + n ELSE index
        i == IF i0 < 0 THEN 0 ELSE IF i0 > n THEN n ELSE i0
    IN  SubSeq(self, 1, i) \o <<item>> \o SubSeq(self, i + 1, n)

(***************************************************************************)
(* class UniqueList(list)                                                  *)
(***************************************************************************)

\* a plausible bug: append without the membership test
UniqueList_append_nocheck(self, item) == Append(self, item)

UniqueList_append(self, item) ==
    IF ~In(item, self) THEN Append(self, item) ELSE self

UniqueList_add(self, item) ==
    IF ~In(item, self) THEN UniqueList_append(self, item) ELSE self

RECURSIVE UniqueList_extend(_, _)
UniqueList_extend(self, iterable) ==
    IF iterable = <<>> THEN self
    ELSE UniqueList_extend(UniqueList_add(self, Head(iterable)), Tail(iterable))

\* a plausible bug: an insert that moves an element that is already present
UniqueList_insert_moving(self, index, item) ==
    list_insert(SelectSeq(self, LAMBDA x : x # item), index, item)

UniqueList_insert(self, index, item) ==
    IF ~In(item, self) THEN list_insert(self, index, item) ELSE self

UniqueList_iadd(self, other) == UniqueList_extend(self, other)

\* a plausible bug: a constructor that keeps the last occurrence of a duplicate
RECURSIVE UniqueList_init_keep_last(_)
UniqueList_init_keep_last(iterable) ==
    IF iterable = <<>> THEN <<>>
    ELSE LET rest == Tail(iterable)
         IN  IF In(Head(iterable), rest) THEN UniqueList_init_keep_last(rest)
             ELSE <<Head(iterable)>> \o UniqueList_init_keep_last(rest)

\* UniqueList(iterable): starts empty and adds every item in turn
UniqueList_init(iterable) == UniqueList_extend(<<>>, iterable)

\* self[index] (list.__getitem__): a negative index counts from the end, an
\* index outside the list raises IndexError
list_getitem(self, index) ==
    LET i == IF index < 0 THEN index + Len(self) ELSE index
    IN  IF i < 0 \/ i >= Len(self) THEN [value |-> "", err |-> "IndexError"]
        ELSE [value |-> self[i + 1], err |-> ""]

\* UniqueList.first()
UniqueList_first(self) == list_getitem(self, 0)

\* a plausible bug: last() reading position 0
UniqueList_last_as_first(self) == list_getitem(self, 0)

\* UniqueList.last()
UniqueList_last(self) == list_getitem(self, 0 - 1)

(***************************************************************************)
(* Python strings: sequences of characters.                                *)
(***************************************************************************)

\* the characters the model uses, in code point order
CodePoints ==
    <<"\t", "\n", " ", "#", "$", "%", "(", ")", "*", "+", "-", ".", "/",
      ":", "=", "@", "A", "B", "C", "D", "E", "F", "G", "H", "I", "J", "K",
      "L", "M", "N", "O", "P", "Q", "R", "S", "T", "U", "V", "W", "X", "Y",
      "Z", "a", "b", "c", "d", "e", "f", "g", "h", "i", "j", "k", "l", "m",
      "n", "o", "p", "q", "r", "s", "t", "u", "v", "w", "x", "y", "z">>

\* ord(c), up to an order preserving renumbering
Ord(c) == CHOOSE i \in 1..Len(CodePoints) : CodePoints[i] = c

\* sep.join(list)
RECURSIVE Join(_, _)
Join(sep, list) ==
    IF list = <<>> THEN <<>>
    ELSE IF Len(list) = 1 THEN list[1]
    ELSE list[1] \o sep \o Join(sep, Tail(list))

\* c in text, for one character c
HasChar(c, text) == \E i \in 1..Len(text) : text[i] = c

\* text.endswith(suffix)
EndsWith(text, suffix) ==
    /\ Len(suffix) <= Len(text)
    /\ SubSeq(text, Len(text) - Len(suffix) + 1, Len(text)) = suffix

\* text.startswith(prefix)
StartsWith(text, prefix) ==
    /\ Len(prefix) <= Len(text)
    /\ SubSeq(text, 1, Len(prefix)) = prefix

\* a < b for two strings: lexicographic by code point
RECURSIVE StrLess(_, _)
StrLess(a, b) ==
    IF b = <<>> THEN FALSE
    ELSE IF a = <<>> THEN TRUE
    ELSE IF Head(a) = Head(b) THEN StrLess(Tail(a), Tail(b))
    ELSE Ord(Head(a)) < Ord(Head(b))

SP == <<" ">>
NL == <<"\n">>
TAB == <<"\t">>

(***************************************************************************)
(* The file system and the processes, as far as the Builder touches them.  *)
(***************************************************************************)
CWD == <<"/", "w">>                 \* os.getcwd()
DirTmp == <<"/", "t">>              \* an existing directory
DirNone == <<"/", "n">>             \* a path that is no directory
DirBuild == <<"d">>                 \* a directory under the working directory
FileObj == <<"a", ".", "o">>        \* an object file in the working directory
FileX == <<"x">>                    \* a file in the working directory
PatObj == <<"*", ".", "o">>         \* a glob pattern
TargetT == <<"t">>                  \* the name of the build product

FsInit == [dirs |-> {CWD, DirTmp, DirBuild}, files |-> {FileObj, FileX}]

\* os.path.isdir(path)
isdir(path, fsys) == path \in fsys.dirs

always_true(x) == TRUE

\* a plausible bug: the entry is never tested
TestFunc_untested(test_func, entry, fsys) == always_true(entry)

\* test_func(entry) for the two test functions the add methods pass
TestFunc(test_func, entry, fsys) ==
    IF test_func = "os.path.isdir" THEN isdir(entry, fsys) ELSE always_true(entry)

\* fnmatch of a name against a pattern that is a literal name or "*" + suffix
Matches(pattern, name) ==
    IF pattern # <<>> /\ Head(pattern) = "*"
    THEN EndsWith(name, Tail(pattern))
    ELSE pattern = name

\* the relative paths of the working directory
RelPaths(fsys) == {p \in fsys.dirs \cup fsys.files : Head(p) # "/"}

\* a set as a sequence, in some order (the order of a directory listing)
RECURSIVE SetToSeq(_)
SetToSeq(S) ==
    IF S = {} THEN <<>>
    ELSE LET x == CHOOSE y \in S : TRUE IN <<x>> \o SetToSeq(S \ {x})

\* Path(".").glob(pattern)
Glob(pattern, fsys) == SetToSeq({p \in RelPaths(fsys) : Matches(pattern, p)})

Event(ev, arg) == [ev |-> ev, arg |-> arg]

(***************************************************************************)
(* class Builder                                                           *)
(***************************************************************************)
StrGxx == <<"g", "+", "+">>
StrGcc == <<"g", "c", "c">>
StrClang == <<"c", "+", "+">>
StrCc == <<"c", "c">>
PrefixI == <<"-", "I">>
PrefixL == <<"-", "L">>
DashO == <<"-", "o">>

\* Builder(target, strict)
Builder_init(target, strict) ==
    [target |-> target, strict |-> strict, _cc |-> StrGcc, _cxx |-> StrGxx,
     _cppfiles |-> <<>>, _hppfiles |-> <<>>, _include_dirs |-> <<>>,
     _cflags |-> <<>>, _cxxflags |-> <<>>, _link_dirs |-> <<>>,
     _ldlibs |-> <<>>, _ldflags |-> <<>>, _cleanup_patterns |-> <<>>,
     _cleanup_targets |-> <<>>]

\* the result of a method: the object after it, and the exception it raised
Result(self, err) == [self |-> self, err |-> err]

\* a plausible bug: the command started with the C compiler
CXX_from_cc(self) == self._cc

TARGET(self) == self.target
CPPFILES(self) == Join(SP, self._cppfiles)
CXX(self) == self._cxx
INCLUDEDIRS(self) == Join(SP, self._include_dirs)
LINKDIRS(self) == Join(SP, self._link_dirs)
LDLIBS(self) == Join(SP, self._ldlibs)

CXXFLAGS(self) == Join(SP, self._cxxflags) \o SP \o INCLUDEDIRS(self)

LDFLAGS(self) == Join(SP, self._ldflags) \o SP \o LINKDIRS(self)

\* a plausible bug: libraries and linker flags in the other order
build_cmd_swapped(self) ==
    CXX(self) \o SP \o CXXFLAGS(self) \o SP \o CPPFILES(self) \o SP
        \o LDFLAGS(self) \o SP \o LDLIBS(self) \o SP \o DashO \o SP \o TARGET(self)

build_cmd(self) ==
    CXX(self) \o SP \o CXXFLAGS(self) \o SP \o CPPFILES(self) \o SP
        \o LDLIBS(self) \o SP \o LDFLAGS(self) \o SP \o DashO \o SP \o TARGET(self)

\* a variant: the membership test made on the entry as it is stored, with
\* its prefix, so that a prefixed entry given again is found
RECURSIVE _add_config_entries_prefixed(_, _, _, _, _, _)
_add_config_entries_prefixed(self, attr, prefix, test_func, entries, fsys) ==
    IF entries = <<>> THEN Result(self, "")
    ELSE LET entry == Head(entries)
             _list == self[attr]
         IN  IF ~TestFunc(test_func, entry, fsys)
                 THEN Result(self, "AssertionError")
             ELSE IF In(prefix \o entry, _list)
                 THEN IF self.strict THEN Result(self, "ValueError")
                      ELSE _add_config_entries_prefixed(self, attr, prefix, test_func,
                                                        Tail(entries), fsys)
             ELSE _add_config_entries_prefixed(
                      [self EXCEPT ![attr] = UniqueList_append(_list, prefix \o entry)],
                      attr, prefix, test_func, Tail(entries), fsys)

\* a plausible bug: a call that checks every entry before it stores any, so
\* that a refused call stores nothing
_add_config_entries_atomic(self, attr, prefix, test_func, entries, fsys) ==
    IF \E k \in 1..Len(entries) : ~TestFunc(test_func, entries[k], fsys)
        THEN Result(self, "AssertionError")
    ELSE IF self.strict /\ \E k \in 1..Len(entries) : In(entries[k], self[attr])
        THEN Result(self, "ValueError")
    ELSE LET fresh == SelectSeq(entries, LAMBDA e : ~In(e, self[attr]))
         IN  Result([self EXCEPT ![attr] =
                         UniqueList_extend(@, [k \in 1..Len(fresh) |-> prefix \o fresh[k]])],
                    "")

\* Builder._add_config_entries(attr, prefix, test_func, *entries): the loop
\* stops at the first entry that fails its test or, in strict mode, is found
\* in the list; the entries before it stay added
RECURSIVE _add_config_entries(_, _, _, _, _, _)
_add_config_entries(self, attr, prefix, test_func, entries, fsys) ==
    IF entries = <<>> THEN Result(self, "")
    ELSE LET entry == Head(entries)
             _list == self[attr]
         IN  IF ~TestFunc(test_func, entry, fsys)
                 THEN Result(self, "AssertionError")
             ELSE IF In(entry, _list)
                 THEN IF self.strict THEN Result(self, "ValueError")
                      ELSE _add_config_entries(self, attr, prefix, test_func,
                                               Tail(entries), fsys)
             ELSE _add_config_entries(
                      [self EXCEPT ![attr] = UniqueList_append(_list, prefix \o entry)],
                      attr, prefix, test_func, Tail(entries), fsys)

\* the add_* methods: the list each one fills, its prefix and its test
AddMethods ==
    [add_cppfiles |-> [attr |-> "_cppfiles", prefix |-> <<>>, test |-> "None"],
     add_hppfiles |-> [attr |-> "_hppfiles", prefix |-> <<>>, test |-> "None"],
     add_include_dirs |->
         [attr |-> "_include_dirs", prefix |-> PrefixI, test |-> "os.path.isdir"],
     add_cflags |-> [attr |-> "_cflags", prefix |-> <<>>, test |-> "None"],
     add_cxxflags |-> [attr |-> "_cxxflags", prefix |-> <<>>, test |-> "None"],
     add_link_dirs |->
         [attr |-> "_link_dirs", prefix |-> PrefixL, test |-> "os.path.isdir"],
     add_ldlibs |-> [attr |-> "_ldlibs", prefix |-> <<>>, test |-> "None"],
     add_ldflags |-> [attr |-> "_ldflags", prefix |-> <<>>, test |-> "None"],
     add_cleanup_patterns |->
         [attr |-> "_cleanup_patterns", prefix |-> <<>>, test |-> "None"],
     add_cleanup_targets |->
         [attr |-> "_cleanup_targets", prefix |-> <<>>, test |-> "None"]]

\* Builder.add_<x>(*entries)
Builder_add(self, method, entries, fsys) ==
    LET m == AddMethods[method]
    IN  _add_config_entries(self, m.attr, m.prefix, m.test, entries, fsys)

\* Builder._setup_defaults(), called by configure()
Builder_setup_defaults(self, fsys) ==
    Builder_add(self, "add_include_dirs", <<CWD>>, fsys)

\* the file system and the events of a run of clean() or build()
Run(fsys, events) == [fs |-> fsys, events |-> events]

\* Builder._remove(path): a directory is removed as a tree, anything else is
\* unlinked, and a missing file is not an error
_remove(run, path) ==
    IF isdir(path, run.fs)
    THEN Run([dirs |-> {d \in run.fs.dirs :
                            d # path /\ ~StartsWith(d, path \o <<"/">>)},
              files |-> {f \in run.fs.files : ~StartsWith(f, path \o <<"/">>)}],
             Append(run.events, Event("rmtree", path)))
    ELSE Run([run.fs EXCEPT !.files = @ \ {path}],
             Append(run.events, Event("unlink", path)))

RECURSIVE RemoveAll(_, _)
RemoveAll(run, paths) ==
    IF paths = <<>> THEN run
    ELSE RemoveAll(_remove(run, Head(paths)), Tail(paths))

\* the first loop of clean(): every match of every pattern is removed
RECURSIVE CleanPatterns(_, _)
CleanPatterns(run, patterns) ==
    IF patterns = <<>> THEN run
    ELSE CleanPatterns(RemoveAll(run, Glob(Head(patterns), run.fs)), Tail(patterns))

\* Builder.clean()
Builder_clean(self, run) ==
    RemoveAll(CleanPatterns(run, self._cleanup_patterns), self._cleanup_targets)

\* Builder._execute(cmd): prints the command and hands it to os.system; a
\* compiler that exits with status 0 has written the build product
_execute(self, run, cmd, status) ==
    Run(IF status = 0 /\ cmd = build_cmd(self)
            THEN [run.fs EXCEPT !.files = @ \cup {self.target}]
            ELSE run.fs,
        run.events \o <<Event("print", cmd), Event("os.system", cmd)>>)

\* a plausible bug: a dry run that goes on to the cleanup
build_body_dry_cleans(self, dry_run, status, fsys) ==
    IF dry_run
    THEN Builder_clean(self, Run(fsys, <<Event("print", build_cmd(self))>>))
    ELSE LET ran == _execute(self, Run(fsys, <<Event("print", <<>>)>>),
                             build_cmd(self), status)
         IN  IF self._cleanup_patterns # <<>> \/ self._cleanup_targets # <<>>
             THEN Builder_clean(self, ran)
             ELSE ran

\* the body of build() after configure(); status is the exit status of the
\* compiler, which the code does not look at
build_body(self, dry_run, status, fsys) ==
    IF dry_run
    THEN Run(fsys, <<Event("print", build_cmd(self))>>)
    ELSE LET ran == _execute(self, Run(fsys, <<Event("print", <<>>)>>),
                             build_cmd(self), status)
         IN  IF self._cleanup_patterns # <<>> \/ self._cleanup_targets # <<>>
             THEN Builder_clean(self, ran)
             ELSE ran

\* Builder.run_executable()
Builder_run_executable(self, fsys) ==
    _execute(self,
             Run(fsys, <<Event("print", <<"R", "u", "n", "n", "i", "n", "g", " ">>
                                           \o self.target)>>),
             <<".", "/">> \o self.target, 0)

(***************************************************************************)
(* Variable classes: Var and its subclasses differ in assign_op only.      *)
(***************************************************************************)
AssignOps ==
    [Var |-> <<"=">>, SVar |-> <<":", "=">>, IVar |-> <<":", ":", ":", "=">>, CVar |-> <<"?", "=">>, AVar |-> <<"+", "=">>]

\* Var.__init__(key, *values) of class var_type; the caller gives at least
\* one value here (no value raises ValueError before an object exists)
Var_init(var_type, key, values) ==
    [key |-> key,
     assign_op |-> AssignOps[var_type],
     value |-> IF Len(values) = 1 THEN values[1] ELSE Join(NL, values)]

\* a plausible bug: a Var of no value constructed with the empty string
Var_construct_empty_ok(var_type, key, values) ==
    IF values = <<>> THEN Result([key |-> key, assign_op |-> AssignOps[var_type],
                                  value |-> <<>>], "")
    ELSE Result(Var_init(var_type, key, values), "")

\* var_type(key, *values): the object, or the ValueError of a call without
\* a value, which leaves no object
Var_construct(var_type, key, values) ==
    IF values = <<>> THEN Result([key |-> <<>>, assign_op |-> <<>>, value |-> <<>>],
                                 "ValueError")
    ELSE Result(Var_init(var_type, key, values), "")

\* text.split("\n")
RECURSIVE SplitLines(_)
SplitLines(text) ==
    IF ~HasChar("\n", text) THEN <<text>>
    ELSE LET i == CHOOSE k \in 1..Len(text) :
                      text[k] = "\n" /\ \A j \in 1..(k - 1) : text[j] # "\n"
         IN  <<SubSeq(text, 1, i - 1)>> \o SplitLines(SubSeq(text, i + 1, Len(text)))

\* a plausible bug: every value rendered inline
Var_str_inline(self, version) == self.key \o SP \o self.assign_op \o SP \o self.value

\* Var.__str__(): a define block for a value with a newline in it, whose
\* header carries the assignment operator for make versions above 3.81
Var_str(self, version) ==
    IF HasChar("\n", self.value)
    THEN LET values == Join(NL, SplitLines(self.value))
         IN  IF version > 381
             THEN <<"d", "e", "f", "i", "n", "e", " ">> \o self.key \o SP \o self.assign_op \o NL
                      \o values \o <<"\n", "e", "n", "d", "e", "f", "\n">>
             ELSE <<"d", "e", "f", "i", "n", "e", " ">> \o self.key \o NL \o values \o <<"\n", "e", "n", "d", "e", "f", "\n">>
    ELSE self.key \o SP \o self.assign_op \o SP \o self.value

(***************************************************************************)
(* class MakefileWriter: the lines printed to the file, and whether the    *)
(* file is closed.  Each line carries the name of the method that wrote it.*)
(***************************************************************************)
Writer_init == [lines |-> <<>>, closed |-> FALSE, closes |-> 0]

\* MakefileWriter.write(line) for each of the lines in turn: print() to a
\* closed file raises ValueError, at the first line
Writer_write(self, lines) ==
    IF lines # <<>> /\ self.closed THEN Result(self, "ValueError")
    ELSE Result([self EXCEPT !.lines = @ \o lines], "")

\* MakefileWriter.close(); closes counts the calls
Writer_close(self) == [self EXCEPT !.closed = TRUE, !.closes = @ + 1]

Line(section, text) == [section |-> section, text |-> text]

(***************************************************************************)
(* class MakefileGenerator                                                 *)
(***************************************************************************)
KeyX == <<"X">>
KeyY == <<"Y">>
VarRefCurdir == <<"$", "(", "C", "U", "R", "D", "I", "R", ")">>

\* MakefileGenerator(path, strict); includes, includes_optional and
\* conditionals are the collections of the include and conditional methods
Generator_init(strict) ==
    [strict |-> strict, cxx |-> StrGxx, vars |-> <<>>, var_order |-> <<>>,
     include_dirs |-> <<>>, cflags |-> <<>>, cxxflags |-> <<>>,
     link_dirs |-> <<>>, ldlibs |-> <<>>, ldflags |-> <<>>, targets |-> <<>>,
     pattern_rules |-> <<>>, phony |-> <<>>, clean |-> <<>>,
     includes |-> <<>>, includes_optional |-> <<>>, conditionals |-> <<>>]

\* self.vars[key] = var
DictSet(dict, key, var) ==
    [k \in DOMAIN dict \cup {key} |-> IF k = key THEN var ELSE dict[k]]

\* re.match(r".*\$+\((.+)\).*", text): the first .* is greedy, so the match
\* starts at the last "$(" that still has a character and a ")" after it,
\* and the group runs to the last ")"; the set is empty when nothing matches
VarRefMatch(text) ==
    LET closes == {j \in 1..Len(text) : text[j] = ")"}
        opens == {i \in 1..(Len(text) - 1) :
                      /\ text[i] = "$" /\ text[i + 1] = "("
                      /\ \E j \in closes : j >= i + 3}
    IN  IF opens = {} THEN {}
        ELSE LET i == CHOOSE o \in opens : \A p \in opens : p <= o
                 j == CHOOSE c \in closes : \A e \in closes : e <= c
             IN  {SubSeq(text, i + 2, j - 1)}

\* MakefileGenerator.check_dir(path): "True", "False", or the exception it
\* raises; os.path.isdir is handed the Var object stored in vars, not its
\* value, and raises TypeError for it
check_dir(self, path, fsys) ==
    IF path \in {<<"$", "(", "H", "O", "M", "E", ")">>, <<"$", "(", "P", "W", "D", ")">>, <<"$", "(", "C", "U", "R", "D", "I", "R", ")">>} THEN "True"
    ELSE IF VarRefMatch(path) # {}
    THEN LET key == CHOOSE k \in VarRefMatch(path) : TRUE
         IN  IF key \in {<<"H", "O", "M", "E">>, <<"P", "W", "D">>, <<"C", "U", "R", "D", "I", "R">>} THEN "True"
             ELSE IF key \notin DOMAIN self.vars THEN "AssertionError"
             ELSE "TypeError"
    ELSE IF isdir(path, fsys) THEN "True" ELSE "False"

\* test_func(x) inside an assert: "" when it passes, else the exception
AssertTest(self, test_func, x, fsys) ==
    IF test_func = "check_dir"
    THEN LET r == check_dir(self, x, fsys)
         IN  IF r = "True" THEN "" ELSE IF r = "False" THEN "AssertionError" ELSE r
    ELSE ""

\* the second loop of _add_entry_or_variable: the keyword arguments, each a
\* <<key, value>> pair
RECURSIVE AddKwargs(_, _, _, _, _, _)
AddKwargs(self, attr, prefix, test_func, kwargs, fsys) ==
    IF kwargs = <<>> THEN Result(self, "")
    ELSE LET key == Head(kwargs)[1]
             value == Head(kwargs)[2]
             failed == AssertTest(self, test_func, value, fsys)
         IN  IF failed # "" THEN Result(self, failed)
             ELSE IF key \in DOMAIN self.vars
                 THEN IF self.strict THEN Result(self, "ValueError")
                      ELSE AddKwargs(self, attr, prefix, test_func, Tail(kwargs), fsys)
             ELSE AddKwargs(
                      [self EXCEPT
                           !.vars = DictSet(@, key, Var_init("Var", key, <<value>>)),
                           ![attr] = UniqueList_append(@, prefix \o <<"$", "(">> \o key \o <<")">>),
                           !.var_order = UniqueList_append(@, key)],
                      attr, prefix, test_func, Tail(kwargs), fsys)

\* MakefileGenerator._add_entry_or_variable(attr, prefix, test_func,
\* *entries, **kwargs): the entries first, then the keyword arguments
RECURSIVE _add_entry_or_variable(_, _, _, _, _, _, _)
_add_entry_or_variable(self, attr, prefix, test_func, entries, kwargs, fsys) ==
    IF entries = <<>> THEN AddKwargs(self, attr, prefix, test_func, kwargs, fsys)
    ELSE LET entry == Head(entries)
             _list == self[attr]
             failed == AssertTest(self, test_func, entry, fsys)
         IN  IF failed # "" THEN Result(self, failed)
             ELSE IF In(entry, _list)
                 THEN IF self.strict THEN Result(self, "ValueError")
                      ELSE _add_entry_or_variable(self, attr, prefix, test_func,
                                                  Tail(entries), kwargs, fsys)
             ELSE _add_entry_or_variable(
                      [self EXCEPT ![attr] = UniqueList_append(_list, prefix \o entry)],
                      attr, prefix, test_func, Tail(entries), kwargs, fsys)

\* a plausible bug: add_var that moves a key it already knows to the end
add_var_moving(self, var) ==
    Result([self EXCEPT
                !.vars = DictSet(@, var.key, var),
                !.var_order = Append(SelectSeq(@, LAMBDA k : k # var.key), var.key)],
           "")

\* a plausible bug: add_var that stores the Var and forgets its place in
\* the write order
add_var_unordered(self, var) ==
    Result([self EXCEPT !.vars = DictSet(@, var.key, var)], "")

\* MakefileGenerator.add_var(var)
add_var(self, var) ==
    Result([self EXCEPT !.vars = DictSet(@, var.key, var),
                        !.var_order = UniqueList_append(@, var.key)],
           "")

\* a plausible bug: add_variable that keeps the Var of a key it knows
add_variable_keeping(self, key, value, var_type) ==
    IF key \in DOMAIN self.vars THEN Result(self, "")
    ELSE Result([self EXCEPT
                     !.vars = DictSet(@, key, Var_init(var_type, key, <<value>>)),
                     !.var_order = UniqueList_append(@, key)],
                "")

\* MakefileGenerator.add_variable(key, value, var_type)
add_variable(self, key, value, var_type) ==
    Result([self EXCEPT !.vars = DictSet(@, key, Var_init(var_type, key, <<value>>)),
                        !.var_order = UniqueList_append(@, key)],
           "")

\* the add methods of the generator: list, prefix, test
GenAddMethods ==
    [add_include_dirs |->
         [attr |-> "include_dirs", prefix |-> PrefixI, test |-> "check_dir"],
     add_cflags |-> [attr |-> "cflags", prefix |-> <<>>, test |-> "None"],
     add_cxxflags |-> [attr |-> "cxxflags", prefix |-> <<>>, test |-> "None"],
     add_link_dirs |->
         [attr |-> "link_dirs", prefix |-> PrefixL, test |-> "check_dir"],
     add_ldlibs |-> [attr |-> "ldlibs", prefix |-> <<>>, test |-> "None"],
     add_ldflags |-> [attr |-> "ldflags", prefix |-> <<>>, test |-> "None"]]

\* MakefileGenerator.add_<x>(*entries, **kwargs)
Generator_add(self, method, entries, kwargs, fsys) ==
    LET m == GenAddMethods[method]
    IN  _add_entry_or_variable(self, m.attr, m.prefix, m.test, entries, kwargs, fsys)

\* a plausible bug: the recipe-only form written with the space of the
\* dependency forms
add_target_space(self, name, recipe, deps) ==
    IF recipe = <<>> /\ deps = <<>> THEN Result(self, "ValueError")
    ELSE LET _target ==
                 IF recipe # <<>>
                     THEN name \o <<":", " ">> \o Join(SP, deps) \o <<"\n", "\t">> \o recipe
                 ELSE name \o <<":", " ">> \o Join(SP, deps)
         IN  IF In(_target, self.targets) THEN Result(self, "ValueError")
             ELSE Result([self EXCEPT !.targets = UniqueList_append(@, _target)], "")

\* a plausible bug: a target registered already is skipped unless strict, as
\* the other add methods do
add_target_skipping(self, name, recipe, deps) ==
    IF recipe = <<>> /\ deps = <<>> THEN Result(self, "ValueError")
    ELSE LET _target ==
                 IF recipe # <<>> /\ deps # <<>>
                     THEN name \o <<":", " ">> \o Join(SP, deps) \o <<"\n", "\t">> \o recipe
                 ELSE IF recipe # <<>>
                     THEN name \o <<":", "\n", "\t">> \o recipe
                 ELSE name \o <<":", " ">> \o Join(SP, deps)
         IN  IF In(_target, self.targets)
                 THEN Result(self, IF self.strict THEN "ValueError" ELSE "")
             ELSE Result([self EXCEPT !.targets = UniqueList_append(@, _target)], "")

\* MakefileGenerator.add_target(name, recipe, deps); an absent recipe is the
\* empty string and absent deps the empty list (both are tested with `not`)
add_target(self, name, recipe, deps) ==
    IF recipe = <<>> /\ deps = <<>> THEN Result(self, "ValueError")
    ELSE LET _target ==
                 IF recipe # <<>> /\ deps # <<>>
                     THEN name \o <<":", " ">> \o Join(SP, deps) \o <<"\n", "\t">> \o recipe
                 ELSE IF recipe # <<>>
                     THEN name \o <<":", "\n", "\t">> \o recipe
                 ELSE name \o <<":", " ">> \o Join(SP, deps)
         IN  IF In(_target, self.targets) THEN Result(self, "ValueError")
             ELSE Result([self EXCEPT !.targets = UniqueList_append(@, _target)], "")

\* a plausible bug: the wildcard is looked for in the target pattern only
add_pattern_rule_target_only(self, target_pattern, source_pattern, recipe) ==
    IF target_pattern = <<>> \/ source_pattern = <<>> \/ recipe = <<>>
        THEN Result(self, "ValueError")
    ELSE IF ~HasChar("%", target_pattern) THEN Result(self, "ValueError")
    ELSE LET pattern_rule ==
                 target_pattern \o <<":", " ">> \o source_pattern \o <<"\n", "\t">> \o recipe
         IN  IF In(pattern_rule, self.pattern_rules) THEN Result(self, "ValueError")
             ELSE Result([self EXCEPT
                              !.pattern_rules = UniqueList_append(@, pattern_rule)],
                         "")

\* MakefileGenerator.add_pattern_rule(target_pattern, source_pattern, recipe)
add_pattern_rule(self, target_pattern, source_pattern, recipe) ==
    IF target_pattern = <<>> \/ source_pattern = <<>> \/ recipe = <<>>
        THEN Result(self, "ValueError")
    ELSE IF ~HasChar("%", target_pattern) THEN Result(self, "ValueError")
    ELSE IF ~HasChar("%", source_pattern) THEN Result(self, "ValueError")
    ELSE LET pattern_rule ==
                 target_pattern \o <<":", " ">> \o source_pattern \o <<"\n", "\t">> \o recipe
         IN  IF In(pattern_rule, self.pattern_rules) THEN Result(self, "ValueError")
             ELSE Result([self EXCEPT
                              !.pattern_rules = UniqueList_append(@, pattern_rule)],
                         "")

\* the loop of add_phony and add_clean: an entry that is not empty and not
\* yet in the list is appended
RECURSIVE AddNonEmpty(_, _)
AddNonEmpty(list, entries) ==
    IF entries = <<>> THEN list
    ELSE AddNonEmpty(IF Head(entries) # <<>> /\ ~In(Head(entries), list)
                         THEN UniqueList_append(list, Head(entries))
                         ELSE list,
                     Tail(entries))

\* MakefileGenerator.add_phony(*entries)
add_phony(self, entries) ==
    Result([self EXCEPT !.phony = AddNonEmpty(@, entries)], "")

\* MakefileGenerator.add_clean(*entries)
add_clean(self, entries) ==
    Result([self EXCEPT !.clean = AddNonEmpty(@, entries)], "")

\* MakefileGenerator.add_include(*paths): a unique collection of paths
add_include(self, paths) ==
    Result([self EXCEPT !.includes = UniqueList_extend(@, paths)], "")

\* MakefileGenerator.add_include_optional(*paths)
add_include_optional(self, paths) ==
    Result([self EXCEPT !.includes_optional = UniqueList_extend(@, paths)], "")

ConditionalKinds == {<<"i", "f", "e", "q">>, <<"i", "f", "n", "e", "q">>, <<"i", "f", "d", "e", "f">>, <<"i", "f", "n", "d", "e", "f">>}

\* a plausible bug: conditional blocks kept in a unique collection
add_conditional_unique(self, condition_type, condition, content, else_content) ==
    IF condition_type \notin ConditionalKinds THEN Result(self, "ValueError")
    ELSE LET head == IF condition_type \in {<<"i", "f", "e", "q">>, <<"i", "f", "n", "e", "q">>}
                         THEN condition_type \o <<" ", "(">> \o condition \o <<")">>
                         ELSE condition_type \o SP \o condition
             else_part == IF else_content # <<>>
                              THEN <<"\n", "e", "l", "s", "e", "\n">> \o else_content
                              ELSE <<>>
             block == head \o NL \o content \o else_part \o <<"\n", "e", "n", "d", "i", "f">>
         IN  Result([self EXCEPT !.conditionals = UniqueList_append(@, block)], "")

\* MakefileGenerator.add_conditional(condition_type, condition, content,
\* else_content): the if line (parenthesised condition for ifeq and ifneq),
\* the body, an else part when else_content is given, and endif; the blocks
\* are kept in call order and may repeat
add_conditional(self, condition_type, condition, content, else_content) ==
    IF condition_type \notin ConditionalKinds THEN Result(self, "ValueError")
    ELSE LET head == IF condition_type \in {<<"i", "f", "e", "q">>, <<"i", "f", "n", "e", "q">>}
                         THEN condition_type \o <<" ", "(">> \o condition \o <<")">>
                         ELSE condition_type \o SP \o condition
             else_part == IF else_content # <<>>
                              THEN <<"\n", "e", "l", "s", "e", "\n">> \o else_content
                              ELSE <<>>
             block == head \o NL \o content \o else_part \o <<"\n", "e", "n", "d", "i", "f">>
         IN  Result([self EXCEPT !.conditionals = Append(@, block)], "")

\* a plausible bug: no default include directory
Generator_setup_defaults_none(self, fsys) == Result(self, "")

\* MakefileGenerator._setup_defaults()
Generator_setup_defaults(self, fsys) ==
    Generator_add(self, "add_include_dirs", <<VarRefCurdir>>, <<>>, fsys)

\* the lines of _write_variables(): the header and the user variables in
\* var_order, then INCLUDEDIRS and LINKDIRS, then the compiler and the
\* aggregate flag lines
_write_variables(self, version) ==
    LET W(text) == Line("_write_variables", text)
    IN  <<W(<<"#", " ", "p", "r", "o", "j", "e", "c", "t", " ", "v", "a", "r", "i", "a", "b", "l", "e", "s">>)>>
        \o [k \in 1..Len(self.var_order) |->
                W(Var_str(self.vars[self.var_order[k]], version))]
        \o <<W(<<>>)>>
        \o (IF self.include_dirs # <<>>
                THEN <<W(<<"I", "N", "C", "L", "U", "D", "E", "D", "I", "R", "S", " ", "=", " ">> \o Join(SP, self.include_dirs))>>
                ELSE <<>>)
        \o (IF self.link_dirs # <<>>
                THEN <<W(<<"L", "I", "N", "K", "D", "I", "R", "S", " ", "=", " ">> \o Join(SP, self.link_dirs))>>
                ELSE <<>>)
        \o <<W(<<>>)>>
        \o <<W(<<"C", "X", "X", " ", "=", " ">> \o self.cxx)>>
        \o (IF self.cflags # <<>>
                THEN <<W(<<"C", "F", "L", "A", "G", "S", " ", "+", "=", " ">> \o Join(SP, self.cflags) \o <<" ", "$", "(", "I", "N", "C", "L", "U", "D", "E", "D", "I", "R", "S", ")">>)>>
                ELSE <<>>)
        \o (IF self.cxxflags # <<>>
                THEN <<W(<<"C", "X", "X", "F", "L", "A", "G", "S", " ", "+", "=", " ">> \o Join(SP, self.cxxflags)
                             \o <<" ", "$", "(", "I", "N", "C", "L", "U", "D", "E", "D", "I", "R", "S", ")">>)>>
                ELSE <<>>)
        \o (IF self.ldflags # <<>> \/ self.link_dirs # <<>>
                THEN <<W(<<"L", "D", "F", "L", "A", "G", "S", " ", "+", "=", " ">> \o Join(SP, self.ldflags) \o <<" ", "$", "(", "L", "I", "N", "K", "D", "I", "R", "S", ")">>)>>
                ELSE <<>>)
        \o (IF self.ldlibs # <<>>
                THEN <<W(<<"L", "D", "L", "I", "B", "S", " ", "=", " ">> \o Join(SP, self.ldlibs))>>
                ELSE <<>>)
        \o <<W(<<>>)>>

\* a plausible bug: the optional includes written before the required ones
_write_includes_optional_first(self) ==
    LET W(text) == Line("_write_includes", text)
    IN  IF self.includes # <<>> \/ self.includes_optional # <<>>
        THEN <<W(<<"#", " ", "I", "n", "c", "l", "u", "d", "e", " ", "d", "i", "r", "e", "c", "t", "i", "v", "e", "s">>)>>
             \o [k \in 1..Len(self.includes_optional) |->
                     W(<<"-", "i", "n", "c", "l", "u", "d", "e", " ">> \o self.includes_optional[k])]
             \o [k \in 1..Len(self.includes) |-> W(<<"i", "n", "c", "l", "u", "d", "e", " ">> \o self.includes[k])]
             \o <<W(<<>>)>>
        ELSE <<>>

\* the include section: a header, the required includes, then the optional
\* ones with the -include directive
_write_includes(self) ==
    LET W(text) == Line("_write_includes", text)
    IN  IF self.includes # <<>> \/ self.includes_optional # <<>>
        THEN <<W(<<"#", " ", "I", "n", "c", "l", "u", "d", "e", " ", "d", "i", "r", "e", "c", "t", "i", "v", "e", "s">>)>>
             \o [k \in 1..Len(self.includes) |-> W(<<"i", "n", "c", "l", "u", "d", "e", " ">> \o self.includes[k])]
             \o [k \in 1..Len(self.includes_optional) |->
                     W(<<"-", "i", "n", "c", "l", "u", "d", "e", " ">> \o self.includes_optional[k])]
             \o <<W(<<>>)>>
        ELSE <<>>

\* the lines of _write_phony()
_write_phony(self) ==
    LET W(text) == Line("_write_phony", text)
    IN  IF self.phony # <<>>
        THEN <<W(<<>>), W(<<".", "P", "H", "O", "N", "Y", ":", " ">> \o Join(SP, self.phony)), W(<<>>)>>
        ELSE <<>>

\* the conditional section: a header, then every block and a blank line
RECURSIVE BlocksWithBlank(_, _)
BlocksWithBlank(section, blocks) ==
    IF blocks = <<>> THEN <<>>
    ELSE <<Line(section, Head(blocks)), Line(section, <<>>)>>
             \o BlocksWithBlank(section, Tail(blocks))

_write_conditionals(self) ==
    IF self.conditionals # <<>>
    THEN <<Line("_write_conditionals", <<"#", " ", "C", "o", "n", "d", "i", "t", "i", "o", "n", "a", "l", " ", "b", "l", "o", "c", "k", "s">>)>>
             \o BlocksWithBlank("_write_conditionals", self.conditionals)
    ELSE <<>>

\* the lines of _write_pattern_rules()
_write_pattern_rules(self) ==
    IF self.pattern_rules # <<>>
    THEN <<Line("_write_pattern_rules", <<"#", " ", "P", "a", "t", "t", "e", "r", "n", " ", "r", "u", "l", "e", "s">>)>>
             \o BlocksWithBlank("_write_pattern_rules", self.pattern_rules)
    ELSE <<>>

\* insertion of one text into a sorted list of texts
RECURSIVE InsertSorted(_, _)
InsertSorted(sorted_list, text) ==
    IF sorted_list = <<>> THEN <<text>>
    ELSE IF StrLess(text, Head(sorted_list)) THEN <<text>> \o sorted_list
    ELSE <<Head(sorted_list)>> \o InsertSorted(Tail(sorted_list), text)

\* sorted(list) for a list of strings
RECURSIVE sorted(_)
sorted(list) ==
    IF list = <<>> THEN <<>>
    ELSE InsertSorted(sorted(SubSeq(list, 1, Len(list) - 1)), list[Len(list)])

\* a plausible bug: the targets written in registration order
_write_targets_unsorted(self) == BlocksWithBlank("_write_targets", self.targets)

\* the lines of _write_targets()
_write_targets(self) == BlocksWithBlank("_write_targets", sorted(self.targets))

\* the lines of _write_clean()
_write_clean(self) ==
    IF self.clean # <<>>
    THEN <<Line("_write_clean", <<"c", "l", "e", "a", "n", ":", "\n", "\t", "@", "r", "m", " ", "-", "r", "f", " ">> \o Join(SP, self.clean)),
           Line("_write_clean", <<>>)>>
    ELSE <<>>

\* a plausible bug: the phony line written after the pattern rules
generate_lines_phony_late(self, version) ==
    _write_variables(self, version) \o _write_includes(self)
        \o _write_conditionals(self) \o _write_pattern_rules(self)
        \o _write_phony(self) \o _write_targets(self) \o _write_clean(self)

\* everything generate() writes after _setup_defaults() and before close()
generate_lines(self, version) ==
    _write_variables(self, version) \o _write_includes(self) \o _write_phony(self)
        \o _write_conditionals(self) \o _write_pattern_rules(self)
        \o _write_targets(self) \o _write_clean(self)

\* a plausible bug: the file closed before the sections are written
generate_close_first(self, w, version, fsys) ==
    LET d == Generator_setup_defaults(self, fsys)
    IN  IF d.err # "" THEN [self |-> d.self, writer |-> w, err |-> d.err]
        ELSE LET written == Writer_write(Writer_close(w), generate_lines(d.self, version))
             IN  [self |-> d.self, writer |-> written.self, err |-> written.err]

\* MakefileGenerator.generate(): the defaults, every section, then close();
\* an exception ends the call where it is raised
generate(self, w, version, fsys) ==
    LET d == Generator_setup_defaults(self, fsys)
    IN  IF d.err # "" THEN [self |-> d.self, writer |-> w, err |-> d.err]
        ELSE LET written == Writer_write(w, generate_lines(d.self, version))
             IN  IF written.err # ""
                     THEN [self |-> d.self, writer |-> written.self, err |-> written.err]
                 ELSE [self |-> d.self, writer |-> Writer_close(written.self), err |-> ""]

(***************************************************************************)
(* The UniqueList as a state machine: constructed from any bounded input,  *)
(* then mutated by add, append, extend, insert and +=.                     *)
(***************************************************************************)
Elems == {"a", "b", "c"}

\* every sequence over S of length at most n
SeqsUpTo(S, n) == UNION {[1..k -> S] : k \in 0..n}

Indexes == (0 - (MaxLen + 1))..(MaxLen + 1)

NoOp == [kind |-> "init", item |-> "", index |-> 0, items |-> <<>>,
         result |-> "", err |-> ""]

\* no Builder call yet
BNoCall == [op |-> "__init__", entries |-> <<>>, dry_run |-> FALSE,
            status |-> 0, err |-> ""]

\* the Builder part of the state while another object is exercised
BIdle ==
    /\ builder = Builder_init(TargetT, FALSE)
    /\ bPrev = builder
    /\ bLast = BNoCall
    /\ bOps = 0
    /\ fs = FsInit
    /\ trace = <<>>

\* no generator call yet
GNoCall == [op |-> "__init__", args |-> <<>>, err |-> ""]

\* the generator part of the state while another object is exercised
GIdle ==
    /\ gen = Generator_init(FALSE)
    /\ gPrev = gen
    /\ gLast = GNoCall
    /\ gOps = 0
    /\ gLog = <<>>
    /\ writer = Writer_init
    /\ VERSION = 430

\* the UniqueList part of the state while another object is exercised
ULIdle ==
    /\ ul = <<>>
    /\ ulPrev = <<>>
    /\ ulOp = NoOp

\* no Var object
NoVar == [key |-> <<>>, assign_op |-> <<>>, value |-> <<>>]

\* no call on a Var class yet
VNoCall == [op |-> "none", var_type |-> "Var", key |-> <<>>, values |-> <<>>,
            err |-> "", result |-> <<>>]

\* the namespace of a command line without a subcommand
NoArgs == [command |-> "", target |-> <<>>, cxx |-> <<>>, include_dirs |-> <<>>,
           cxxflags |-> <<>>, dry_run |-> FALSE, variables |-> <<>>,
           targets |-> <<>>, pattern_rules |-> <<>>]

\* no run of the command line
NoRun == [args |-> NoArgs, status |-> 0, done |-> FALSE, exit_code |-> 0,
          stdout |-> <<>>, stderr |-> <<>>]

\* no call of auto_var() or get_auto_var_help()
ANoCall == [op |-> "none", token |-> <<>>, result |-> <<>>, err |-> ""]

\* the module-level functions while an object is exercised
MIdle ==
    /\ cli = NoRun
    /\ autoLast = ANoCall

\* the Var part of the state while another object is exercised
VIdle ==
    /\ varObj = NoVar
    /\ varLast = VNoCall

ULInit ==
    /\ \E input \in SeqsUpTo(Elems, MaxLen) :
           /\ ul = UniqueList_init(input)
           /\ ulPrev = <<>>
           /\ ulOp = [NoOp EXCEPT !.items = input]
    /\ BIdle
    /\ GIdle
    /\ VIdle
    /\ MIdle

ULAdd ==
    \E x \in Elems :
        /\ ul' = UniqueList_add(ul, x)
        /\ ulPrev' = ul
        /\ ulOp' = [NoOp EXCEPT !.kind = "add", !.item = x]
        /\ UNCHANGED <<mVars, bVars, gVars, vVars>>

ULAppend ==
    \E x \in Elems :
        /\ ul' = UniqueList_append(ul, x)
        /\ ulPrev' = ul
        /\ ulOp' = [NoOp EXCEPT !.kind = "append", !.item = x]
        /\ UNCHANGED <<mVars, bVars, gVars, vVars>>

ULExtend ==
    \E xs \in SeqsUpTo(Elems, MaxLen) :
        /\ ul' = UniqueList_extend(ul, xs)
        /\ ulPrev' = ul
        /\ ulOp' = [NoOp EXCEPT !.kind = "extend", !.items = xs]
        /\ UNCHANGED <<mVars, bVars, gVars, vVars>>

ULInsert ==
    \E x \in Elems, i \in Indexes :
        /\ ul' = UniqueList_insert(ul, i, x)
        /\ ulPrev' = ul
        /\ ulOp' = [NoOp EXCEPT !.kind = "insert", !.item = x, !.index = i]
        /\ UNCHANGED <<mVars, bVars, gVars, vVars>>

ULIAdd ==
    \E xs \in SeqsUpTo(Elems, MaxLen) :
        /\ ul' = UniqueList_iadd(ul, xs)
        /\ ulPrev' = ul
        /\ ulOp' = [NoOp EXCEPT !.kind = "iadd", !.items = xs]
        /\ UNCHANGED <<mVars, bVars, gVars, vVars>>

\* ul.first()
ULFirst ==
    LET r == UniqueList_first(ul)
    IN  /\ ul' = ul
        /\ ulPrev' = ul
        /\ ulOp' = [NoOp EXCEPT !.kind = "first", !.result = r.value, !.err = r.err]
        /\ UNCHANGED <<mVars, bVars, gVars, vVars>>

\* ul.last()
ULLast ==
    LET r == UniqueList_last(ul)
    IN  /\ ul' = ul
        /\ ulPrev' = ul
        /\ ulOp' = [NoOp EXCEPT !.kind = "last", !.result = r.value, !.err = r.err]
        /\ UNCHANGED <<mVars, bVars, gVars, vVars>>

ULNext == ULAdd \/ ULAppend \/ ULExtend \/ ULInsert \/ ULIAdd \/ ULFirst \/ ULLast

SpecUL == ULInit /\ [][ULNext]_vars

(***************************************************************************)
(* The Builder as a state machine: constructed with a target and a strict  *)
(* flag, then configured by the add methods and the compiler setters, and  *)
(* built (dry or not) or run.                                              *)
(***************************************************************************)
Singles(U) == {<<e>> : e \in U}
OneOrTwo(U) == Singles(U) \cup {<<e, f>> : e \in U, f \in U}

BInit ==
    /\ \E strict \in BOOLEAN : builder = Builder_init(TargetT, strict)
    /\ bPrev = builder
    /\ bLast = BNoCall
    /\ bOps = 0
    /\ fs = FsInit
    /\ trace = <<>>
    /\ ULIdle
    /\ GIdle
    /\ VIdle
    /\ MIdle

\* a call of one add method with the given entries
BAddCall(method, entries) ==
    LET r == Builder_add(builder, method, entries, fs)
    IN  /\ bOps < MaxBuilderOps
        /\ builder' = r.self
        /\ bPrev' = builder
        /\ bLast' = [BNoCall EXCEPT !.op = method, !.entries = entries, !.err = r.err]
        /\ bOps' = bOps + 1
        /\ trace' = <<>>
        /\ UNCHANGED <<mVars, fs, ulVars, gVars, vVars>>

\* builder.cxx = value
B_set_cxx ==
    \E value \in {StrGxx, StrClang} :
        /\ bOps < MaxBuilderOps
        /\ builder' = [builder EXCEPT !._cxx = value]
        /\ bPrev' = builder
        /\ bLast' = [BNoCall EXCEPT !.op = "cxx.setter", !.entries = <<value>>]
        /\ bOps' = bOps + 1
        /\ trace' = <<>>
        /\ UNCHANGED <<mVars, fs, ulVars, gVars, vVars>>

\* builder.cc = value
B_set_cc ==
    \E value \in {StrGcc, StrCc} :
        /\ bOps < MaxBuilderOps
        /\ builder' = [builder EXCEPT !._cc = value]
        /\ bPrev' = builder
        /\ bLast' = [BNoCall EXCEPT !.op = "cc.setter", !.entries = <<value>>]
        /\ bOps' = bOps + 1
        /\ trace' = <<>>
        /\ UNCHANGED <<mVars, fs, ulVars, gVars, vVars>>

\* builder.build(dry_run): configure(), then print or execute and clean up;
\* the exit status of the compiler is the environment's choice
B_build ==
    \E dry_run \in BOOLEAN, status \in {0, 1} :
        LET cfg == Builder_setup_defaults(builder, fs)
            run == build_body(cfg.self, dry_run, status, fs)
        IN  /\ bOps < MaxBuilderOps
            /\ dry_run => status = 0
            /\ builder' = cfg.self
            /\ bPrev' = builder
            /\ bLast' = [BNoCall EXCEPT !.op = "build", !.dry_run = dry_run,
                                        !.status = status, !.err = cfg.err]
            /\ bOps' = bOps + 1
            /\ fs' = IF cfg.err = "" THEN run.fs ELSE fs
            /\ trace' = IF cfg.err = "" THEN run.events ELSE <<>>
            /\ UNCHANGED <<mVars, ulVars, gVars, vVars>>

\* builder.run_executable()
B_run_executable ==
    LET run == Builder_run_executable(builder, fs)
    IN  /\ bOps < MaxBuilderOps
        /\ bPrev' = builder
        /\ bLast' = [BNoCall EXCEPT !.op = "run_executable"]
        /\ bOps' = bOps + 1
        /\ fs' = run.fs
        /\ trace' = run.events
        /\ UNCHANGED <<mVars, builder, ulVars, gVars, vVars>>

\* builder.add_<x>(*entries) for each add method, then the setters, build()
\* and run_executable()
BNext ==
    \/ \E es \in Singles({<<"m", ".", "c">>}) :
           BAddCall("add_cppfiles", es)
    \/ \E es \in Singles({<<"m", ".", "h">>}) :
           BAddCall("add_hppfiles", es)
    \/ \E es \in OneOrTwo({DirTmp, DirNone}) :
           BAddCall("add_include_dirs", es)
    \/ \E es \in Singles({<<"-", "g">>}) :
           BAddCall("add_cflags", es)
    \/ \E es \in OneOrTwo({<<"-", "O">>, <<"-", "W">>}) :
           BAddCall("add_cxxflags", es)
    \/ \E es \in OneOrTwo({DirTmp}) \cup Singles({DirNone}) :
           BAddCall("add_link_dirs", es)
    \/ \E es \in Singles({<<"-", "l", "m">>}) :
           BAddCall("add_ldlibs", es)
    \/ \E es \in Singles({<<"-", "s">>}) :
           BAddCall("add_ldflags", es)
    \/ \E es \in Singles({PatObj}) :
           BAddCall("add_cleanup_patterns", es)
    \/ \E es \in OneOrTwo({FileX, DirBuild}) :
           BAddCall("add_cleanup_targets", es)
    \/ B_set_cxx \/ B_set_cc \/ B_build \/ B_run_executable

SpecBuilder == BInit /\ [][BNext]_vars

(***************************************************************************)
(* The MakefileGenerator as a state machine: constructed with a strict     *)
(* flag (the make version is read when the module is imported), populated  *)
(* by the add methods, and written by generate().                          *)
(***************************************************************************)
GInit ==
    /\ \E strict \in BOOLEAN : gen = Generator_init(strict)
    /\ gPrev = gen
    /\ gLast = GNoCall
    /\ gOps = 0
    /\ gLog = <<>>
    /\ writer = Writer_init
    /\ VERSION \in {381, 430}
    /\ BIdle
    /\ ULIdle
    /\ VIdle
    /\ MIdle

\* the Var objects a call stored in vars, in the order it stored them: the
\* argument of add_var, the object add_variable constructs, and one Var for
\* each keyword an add method registered
Stored(op, args, before, after) ==
    IF op = "add_var" THEN <<args[1]>>
    ELSE IF op = "add_variable" THEN <<Var_init(args[3], args[1], <<args[2]>>)>>
    ELSE [k \in 1..(Len(after.var_order) - Len(before.var_order)) |->
              after.vars[after.var_order[Len(before.var_order) + k]]]

\* the state after a call of a method that returned or raised r
GCall(op, args, r) ==
    /\ gen' = r.self
    /\ gPrev' = gen
    /\ gLast' = [op |-> op, args |-> args, err |-> r.err]
    /\ gOps' = gOps + 1
    /\ gLog' = gLog \o Stored(op, args, gen, r.self)
    /\ UNCHANGED <<mVars, writer, VERSION, bVars, ulVars, vVars>>

\* generator.add_var(Var(key, *values))
G_add_var(Keys, Values) ==
    \E key \in Keys, values \in Values :
        LET var == Var_init("Var", key, values)
        IN  GCall("add_var", <<var>>, add_var(gen, var))

\* generator.add_variable(key, value, var_type)
G_add_variable(Keys, Values, Types) ==
    \E key \in Keys, value \in Values, var_type \in Types :
        GCall("add_variable", <<key, value, var_type>>,
              add_variable(gen, key, value, var_type))

\* generator.add_<x>(*entries, **kwargs) for each <<entries, kwargs>> given
G_add(method, Calls) ==
    \E c \in Calls :
        GCall(method, c, Generator_add(gen, method, c[1], c[2], fs))

\* generator.add_target(name, recipe, deps)
G_add_target(Names, Recipes, Deps) ==
    \E name \in Names, recipe \in Recipes, deps \in Deps :
        GCall("add_target", <<name, recipe, deps>>, add_target(gen, name, recipe, deps))

\* generator.add_pattern_rule(target_pattern, source_pattern, recipe)
G_add_pattern_rule(TargetPatterns, SourcePatterns, Recipes) ==
    \E tp \in TargetPatterns, sp \in SourcePatterns, recipe \in Recipes :
        GCall("add_pattern_rule", <<tp, sp, recipe>>,
              add_pattern_rule(gen, tp, sp, recipe))

\* generator.add_phony(*entries)
G_add_phony(Entries) ==
    \E es \in Entries : GCall("add_phony", es, add_phony(gen, es))

\* generator.add_clean(*entries)
G_add_clean(Entries) ==
    \E es \in Entries : GCall("add_clean", es, add_clean(gen, es))

\* generator.add_include(*paths)
G_add_include(Paths) ==
    \E ps \in Paths : GCall("add_include", ps, add_include(gen, ps))

\* generator.add_include_optional(*paths)
G_add_include_optional(Paths) ==
    \E ps \in Paths :
        GCall("add_include_optional", ps, add_include_optional(gen, ps))

\* generator.add_conditional(condition_type, condition, content, else_content)
G_add_conditional(Kinds, Elses) ==
    \E kind \in Kinds, else_content \in Elses :
        GCall("add_conditional", <<kind, <<"D">>, <<"T">>, else_content>>,
              add_conditional(gen, kind, <<"D">>, <<"T">>, else_content))

\* generator.generate()
G_generate ==
    LET r == generate(gen, writer, VERSION, fs)
    IN  /\ gen' = r.self
        /\ gPrev' = gen
        /\ gLast' = [op |-> "generate", args |-> <<>>, err |-> r.err]
        /\ gOps' = gOps + 1
        /\ writer' = r.writer
        /\ UNCHANGED <<mVars, gLog, VERSION, bVars, ulVars, vVars>>

(***************************************************************************)
(* A generator that is given targets only, then written.                   *)
(***************************************************************************)
GTargetsNext ==
    \/ /\ gOps < MaxTargetOps
       /\ G_add_target({<<"a">>, <<"a", "-", "b">>}, {<<>>, <<"r">>},
          {<<>>, <<<<"c">>>>, <<<<"c">>, <<"d">>>>})
    \/ /\ gOps < MaxTargetOps
       /\ G_generate

SpecGenTargets == GInit /\ [][GTargetsNext]_vars

(***************************************************************************)
(* A generator that is given variables, by add_var, by add_variable and by *)
(* the keyword form of add_cflags, then written.                           *)
(***************************************************************************)
GVarsNext ==
    \/ /\ gOps < MaxVarOps
       /\ G_add_var({KeyX, KeyY}, {<<<<"v">>, <<"w">>>>})
    \/ /\ gOps < MaxVarOps
       /\ G_add_variable({KeyX, KeyY}, {<<"u">>, <<"v">>}, {"Var"})
    \/ /\ gOps < MaxVarOps
       /\ G_add("add_cflags", {<<<<<<"-", "g">>>>, <<>>>>, <<<<>>, <<<<KeyX, <<"-", "g">>>>>>>>})
    \/ /\ gOps < MaxVarOps
       /\ G_generate

SpecGenVars == GInit /\ [][GVarsNext]_vars

(***************************************************************************)
(* A generator that is given one entry for each section of the document,   *)
(* in any order, then written.                                             *)
(***************************************************************************)
GDocNext ==
    \/ /\ gOps < MaxDocOps
       /\ G_add_variable({KeyX}, {<<"v">>}, {"Var"})
    \/ /\ gOps < MaxDocOps
       /\ G_add("add_cflags", {<<<<<<"-", "g">>>>, <<>>>>})
    \/ /\ gOps < MaxDocOps
       /\ G_add("add_link_dirs", {<<<<DirTmp>>, <<>>>>})
    \/ /\ gOps < MaxDocOps
       /\ G_add_include(Singles({<<"c", ".", "m", "k">>}))
    \/ /\ gOps < MaxDocOps
       /\ G_add_include_optional(Singles({<<"o", ".", "m", "k">>}))
    \/ /\ gOps < MaxDocOps
       /\ G_add_phony(Singles({<<"a">>}))
    \/ /\ gOps < MaxDocOps
       /\ G_add_conditional({<<"i", "f", "d", "e", "f">>}, {<<>>})
    \/ /\ gOps < MaxDocOps
       /\ G_add_pattern_rule({<<"%", ".", "o">>}, {<<"%", ".", "c">>}, {<<"r">>})
    \/ /\ gOps < MaxDocOps
       /\ G_add_target({<<"a">>}, {<<>>}, {<<<<"c">>>>})
    \/ /\ gOps < MaxDocOps
       /\ G_add_clean(Singles({PatObj}))
    \/ /\ gOps < MaxDocOps
       /\ G_generate

SpecGenDoc == GInit /\ [][GDocNext]_vars

(***************************************************************************)
(* A generator that is given directories, as paths and as references to    *)
(* variables, and variables that hold paths, then written.                 *)
(***************************************************************************)
VarRefX == <<"$", "(", "X", ")">>
VarRefHome == <<"$", "(", "H", "O", "M", "E", ")">>
VarRefPwd == <<"$", "(", "P", "W", "D", ")">>

GDirsNext ==
    \/ /\ gOps < MaxDirOps
       /\ G_add("add_include_dirs",
          {<<es, <<>>>> : es \in Singles({DirTmp, DirNone, VarRefHome, VarRefPwd,
          VarRefCurdir, VarRefX})}
          \cup {<<<<>>, <<<<KeyX, DirTmp>>>>>>})
    \/ /\ gOps < MaxDirOps
       /\ G_add("add_link_dirs", {<<es, <<>>>> : es \in Singles({DirTmp, VarRefX})})
    \/ /\ gOps < MaxDirOps
       /\ G_add_variable({KeyX}, {DirTmp, DirNone}, {"Var"})
    \/ /\ gOps < MaxDirOps
       /\ G_add_var({KeyX}, {<<DirTmp>>})
    \/ /\ gOps < MaxDirOps
       /\ G_generate

SpecGenDirs == GInit /\ [][GDirsNext]_vars

(***************************************************************************)
(* A generator that is given pattern rules, valid and invalid, then        *)
(* written.                                                                *)
(***************************************************************************)
GRulesNext ==
    \/ /\ gOps < MaxRuleOps
       /\ G_add_pattern_rule({<<>>, <<"%", ".", "o">>, <<"a", ".", "o">>}, {<<>>, <<"%", ".", "c">>, <<"%", ".", "d">>, <<"a", ".", "c">>},
          {<<>>, <<"r">>})
    \/ /\ gOps < MaxRuleOps
       /\ G_generate

SpecGenRules == GInit /\ [][GRulesNext]_vars

(***************************************************************************)
(* The Var classes as a state machine: an object of any of the five        *)
(* classes is constructed from a key and any bounded number of values,     *)
(* then rendered by str().                                                 *)
(***************************************************************************)
ValueTexts == {<<"a">>, <<"b">>, <<"c", "\n", "d">>}

VInit ==
    /\ varObj = NoVar
    /\ varLast = VNoCall
    /\ gen = Generator_init(FALSE)
    /\ gPrev = gen
    /\ gLast = GNoCall
    /\ gOps = 0
    /\ gLog = <<>>
    /\ writer = Writer_init
    /\ VERSION \in {381, 430}
    /\ BIdle
    /\ ULIdle
    /\ MIdle

\* v = var_type(key, *values)
V_construct ==
    \E var_type \in DOMAIN AssignOps, key \in {KeyX, KeyY},
       values \in SeqsUpTo(ValueTexts, MaxValues) :
        LET r == Var_construct(var_type, key, values)
        IN  /\ varObj' = r.self
            /\ varLast' = [op |-> "__init__", var_type |-> var_type, key |-> key,
                           values |-> values, err |-> r.err, result |-> <<>>]
            /\ UNCHANGED <<mVars, ulVars, bVars, gVars>>

\* str(v)
V_str ==
    /\ varObj # NoVar
    /\ varLast' = [varLast EXCEPT !.op = "__str__",
                                  !.result = Var_str(varObj, VERSION)]
    /\ UNCHANGED <<mVars, varObj, ulVars, bVars, gVars>>

VNext == V_construct \/ V_str

SpecVar == VInit /\ [][VNext]_vars

(***************************************************************************)
(* Properties of the UniqueList.                                           *)
(***************************************************************************)
NoDuplicates(s) == \A i, j \in 1..Len(s) : s[i] = s[j] => i = j

\* C1: after any sequence of add, append, extend, insert and += on a
\* UniqueList built from any input, no element appears twice in the list.
C1_NoElementTwice == NoDuplicates(ul)

\* a list grown by a mutating operation that was also given an element that
\* was already present
C1_Witness ==
    /\ ulOp.kind \in {"extend", "iadd"}
    /\ \E k \in 1..Len(ulOp.items) : In(ulOp.items[k], ulPrev)
    /\ ~NoDuplicates(ulOp.items)
    /\ Len(ul) > Len(ulPrev)

\* the positions of the input that hold the first occurrence of their element
FirstPositions(s) == {i \in 1..Len(s) : \A j \in 1..(i - 1) : s[j] # s[i]}

\* the distinct elements of s in order of first occurrence, by position
FirstOccurrences(s) ==
    LET P == FirstPositions(s)
        pos(k) == CHOOSE i \in P : Cardinality({j \in P : j < i}) = k - 1
    IN  [k \in 1..Cardinality(P) |-> s[pos(k)]]

\* C2: constructing a UniqueList from any input sequence yields exactly the
\* distinct elements of the input, in order of first occurrence.
C2_ConstructFirstOccurrences ==
    ulOp.kind = "init" => ul = FirstOccurrences(ulOp.items)

\* a freshly constructed list whose input repeated an element before a new one
C2_Witness ==
    /\ ulOp.kind = "init"
    /\ Len(ulOp.items) = 3
    /\ ulOp.items[1] = ulOp.items[2]
    /\ ulOp.items[3] # ulOp.items[1]
    /\ Len(ul) = 2

\* C3: add, append, extend or insert (at any index) of elements that are all
\* already present leaves contents, order and length unchanged; insert does
\* not move the existing element to the given index.
C3_PresentElementNoChange ==
    /\ (ulOp.kind \in {"add", "append", "insert"} /\ In(ulOp.item, ulPrev))
           => ul = ulPrev
    /\ (ulOp.kind = "extend"
            /\ \A k \in 1..Len(ulOp.items) : In(ulOp.items[k], ulPrev))
           => ul = ulPrev

\* an insert at the front of an element that sits at the end of the list
C3_Witness ==
    /\ ulOp.kind = "insert"
    /\ Len(ulPrev) >= 2
    /\ ulOp.item = ulPrev[Len(ulPrev)]
    /\ ulOp.index = 0
    /\ ul = ulPrev

\* an extend with several elements that are all present
C3_WitnessExtend ==
    /\ ulOp.kind = "extend"
    /\ Len(ulOp.items) >= 2
    /\ \A k \in 1..Len(ulOp.items) : In(ulOp.items[k], ulPrev)

(***************************************************************************)
(* Properties of the Builder.                                              *)
(***************************************************************************)
IsAdd(call) == call.op \in DOMAIN AddMethods

\* every entry of the call was registered in the method's list before the
\* call, in the form the method stores it (with its prefix)
AllRegistered(call, before) ==
    LET m == AddMethods[call.op]
    IN  \A k \in 1..Len(call.entries) :
            In(m.prefix \o call.entries[k], before[m.attr])

\* C4: for every add_* method, the prefixed add_include_dirs and
\* add_link_dirs included, re-adding an entry that is already registered is a
\* silent no-op when strict is off and raises a duplicate-entry error
\* (ValueError) when strict is on.
C4_ReAddSkipsOrRaises ==
    (IsAdd(bLast) /\ AllRegistered(bLast, bPrev)) =>
        /\ builder = bPrev
        /\ bLast.err = (IF bPrev.strict THEN "ValueError" ELSE "")

\* the same policy for the methods that store their entries without a prefix
C4_UnprefixedReAddSkipsOrRaises ==
    (IsAdd(bLast) /\ AddMethods[bLast.op].prefix = <<>>
         /\ AllRegistered(bLast, bPrev)) =>
        /\ builder = bPrev
        /\ bLast.err = (IF bPrev.strict THEN "ValueError" ELSE "")

\* the positions of the trace that hold an event of one of the given kinds
EventsOf(kinds) == {k \in 1..Len(trace) : trace[k].ev \in kinds}

Removals == {"rmtree", "unlink"}

\* C5: in every run of build(), nothing is spawned or removed before the
\* build command has been executed, and the cleanup runs only after a
\* successful build: a build whose command failed removes nothing.
C5_CleanupOnlyAfterSuccess ==
    (bLast.op = "build" /\ bLast.err = "") =>
        /\ \A k \in EventsOf(Removals) :
               \E j \in EventsOf({"os.system"}) :
                   j < k /\ trace[j].arg = build_cmd(builder)
        /\ bLast.status # 0 => EventsOf(Removals) = {}

\* the part of C5 the code keeps: every removal follows the build command
C5_RemovalsFollowTheCommand ==
    (bLast.op = "build" /\ bLast.err = "") =>
        \A k \in EventsOf(Removals) :
            \E j \in EventsOf({"os.system"}) :
                j < k /\ trace[j].arg = build_cmd(builder)

\* C6: build(dry_run=True) only prints the command: whatever cleanup
\* patterns and targets are registered, no process is spawned and no file or
\* directory is removed.
C6_DryRunOnlyPrints ==
    [][(bLast'.op = "build" /\ bLast'.dry_run) =>
           /\ fs' = fs
           /\ \A k \in 1..Len(trace') : trace'[k].ev = "print"]_vars

\* a dry run with a cleanup pattern that matches a file and a cleanup target
\* that exists
C6_Witness ==
    /\ bLast.op = "build" /\ bLast.dry_run /\ bLast.err = ""
    /\ builder._cleanup_patterns # <<>>
    /\ Glob(builder._cleanup_patterns[1], fs) # <<>>
    /\ builder._cleanup_targets # <<>>
    /\ builder._cleanup_targets[1] \in fs.dirs \cup fs.files
    /\ trace = <<Event("print", build_cmd(builder))>>

\* the command as the claim words it: nine parts, one space between each
ExpectedCommand(b) ==
    Join(SP, <<b._cxx, Join(SP, b._cxxflags), Join(SP, b._include_dirs),
               Join(SP, b._cppfiles), Join(SP, b._ldlibs), Join(SP, b._ldflags),
               Join(SP, b._link_dirs), DashO, b.target>>)

\* C7: for every Builder state the rendered command is, in this order, the
\* C++ compiler, the C++ flags, the include dirs, the source files, the link
\* libs, the linker flags followed by the link dirs, -o and the target; and
\* that is the command build() prints.
C7_CommandOrder ==
    /\ build_cmd(builder) = ExpectedCommand(builder)
    /\ (bLast.op = "build" /\ bLast.err = "") =>
           trace[IF bLast.dry_run THEN 1 ELSE 2] =
               Event("print", ExpectedCommand(builder))

\* a build with link libs and linker flags registered
C7_Witness ==
    /\ bLast.op = "build" /\ bLast.err = ""
    /\ builder._ldlibs # <<>>
    /\ builder._ldflags # <<>>
    /\ builder._include_dirs # <<>>

(***************************************************************************)
(* Properties of the MakefileGenerator.                                    *)
(***************************************************************************)
\* generate() has just returned: the document is written and the file closed
GenerateDone == gLast.op = "generate" /\ gLast.err = ""

\* the texts of the non-blank lines that a method wrote, in file order
TextsOf(section) ==
    LET written == SelectSeq(writer.lines,
                             LAMBDA l : l.section = section /\ l.text # <<>>)
    IN  [k \in 1..Len(written) |-> written[k].text]

\* the elements of a sequence
Range(s) == {s[k] : k \in 1..Len(s)}

\* C8: the targets section of the document is the registered targets in
\* strictly ascending lexicographic order of their full rendered text; the
\* section is therefore a function of the set of registered targets, the
\* same for every order in which they were registered.
C8_TargetsSorted ==
    GenerateDone =>
        LET written == TextsOf("_write_targets")
        IN  /\ Len(written) = Len(gen.targets)
            /\ Range(written) = Range(gen.targets)
            /\ \A i, j \in 1..Len(written) : i < j => StrLess(written[i], written[j])

\* three targets registered in an order that is not the sorted one, written
C8_Witness ==
    /\ GenerateDone
    /\ Len(gen.targets) = 3
    /\ \E i, j \in 1..3 : i < j /\ StrLess(gen.targets[j], gen.targets[i])

\* the sections of the document, in the order the claim gives them
SectionOrder ==
    <<"_write_variables", "_write_includes", "_write_phony", "_write_conditionals",
      "_write_pattern_rules", "_write_targets", "_write_clean">>

Rank(section) == CHOOSE k \in 1..Len(SectionOrder) : SectionOrder[k] = section

\* the collection a section is written from
Backing(section) ==
    CASE section = "_write_variables" -> gen.var_order
      [] section = "_write_includes" -> gen.includes \o gen.includes_optional
      [] section = "_write_phony" -> gen.phony
      [] section = "_write_conditionals" -> gen.conditionals
      [] section = "_write_pattern_rules" -> gen.pattern_rules
      [] section = "_write_targets" -> gen.targets
      [] section = "_write_clean" -> gen.clean

\* some line of the document was written by this section
Written(section) == \E k \in 1..Len(writer.lines) : writer.lines[k].section = section

\* the lines of the document are in section order
SectionsInOrder ==
    \A i, j \in 1..Len(writer.lines) :
        i < j => Rank(writer.lines[i].section) <= Rank(writer.lines[j].section)

LogKeys == [k \in 1..Len(gLog) |-> gLog[k].key]

\* the Var object stored last under a key
Latest(key) ==
    gLog[CHOOSE k \in 1..Len(gLog) :
             /\ gLog[k].key = key
             /\ \A j \in 1..Len(gLog) : gLog[j].key = key => j <= k]

\* C10: var_order is the keys in the order of their first insertion, each
\* once; add_var and add_variable of a key that is present replace the
\* stored Var and leave var_order as it was; vars holds for each key the Var
\* stored last; and generate() writes, after the header, one rendering per
\* key in var_order, each of the Var stored last.
C10_FirstInsertionOrder ==
    /\ gen.var_order = FirstOccurrences(LogKeys)
    /\ NoDuplicates(gen.var_order)
    /\ DOMAIN gen.vars = Range(gen.var_order)
    /\ \A key \in DOMAIN gen.vars : gen.vars[key] = Latest(key)
    /\ (/\ gLast.op \in {"add_var", "add_variable"}
        /\ gLog[Len(gLog)].key \in DOMAIN gPrev.vars)
           => /\ gen.var_order = gPrev.var_order
              /\ gen.vars[gLog[Len(gLog)].key] = gLog[Len(gLog)]
    /\ GenerateDone =>
           /\ \A k \in 1..Len(gen.var_order) :
                  writer.lines[1 + k] =
                      Line("_write_variables", Var_str(Latest(gen.var_order[k]), VERSION))
           /\ writer.lines[2 + Len(gen.var_order)] = Line("_write_variables", <<>>)

\* a key stored, a second key stored, the first key stored again with another
\* value, and the document written
C10_Witness ==
    /\ GenerateDone
    /\ Len(gLog) = 3
    /\ gLog[1].key = gLog[3].key
    /\ gLog[1].value # gLog[3].value
    /\ gLog[2].key # gLog[1].key

\* some line of the document has exactly this text
HasLine(text) == \E k \in 1..Len(writer.lines) : writer.lines[k].text = text

\* generate() has just written a generator whose only include directory and
\* only link directory are the existing directory
DirsScenario ==
    /\ GenerateDone
    /\ gPrev.include_dirs = <<PrefixI \o DirTmp>>
    /\ gPrev.link_dirs = <<PrefixL \o DirTmp>>

\* C11 as stated: with the include directory and the link directory
\* registered, the document has the line "INCLUDEDIRS = -I<dir>" and the
\* line "LINKDIRS = -L<dir>".
C11_DirLinesExact ==
    DirsScenario =>
        /\ HasLine(<<"I", "N", "C", "L", "U", "D", "E", "D", "I", "R", "S", " ", "=", " ">> \o PrefixI \o DirTmp)
        /\ HasLine(<<"L", "I", "N", "K", "D", "I", "R", "S", " ", "=", " ">> \o PrefixL \o DirTmp)

\* C11, amended: the document has the line "LINKDIRS = -L<dir>", and its
\* INCLUDEDIRS line is "INCLUDEDIRS = -I<dir> -I$(CURDIR)": generate() adds
\* the default include directory $(CURDIR) after the registered one.
C11_DirLinesWithDefault ==
    DirsScenario =>
        /\ HasLine(<<"I", "N", "C", "L", "U", "D", "E", "D", "I", "R", "S", " ", "=", " ">> \o PrefixI \o DirTmp \o <<" ", "-", "I", "$", "(", "C", "U", "R", "D", "I", "R", ")">>)
        /\ ~HasLine(<<"I", "N", "C", "L", "U", "D", "E", "D", "I", "R", "S", " ", "=", " ">> \o PrefixI \o DirTmp)
        /\ HasLine(<<"L", "I", "N", "K", "D", "I", "R", "S", " ", "=", " ">> \o PrefixL \o DirTmp)

\* the scenario: add_include_dirs, add_link_dirs, generate on a fresh generator
C11_Witness ==
    /\ DirsScenario
    /\ gOps = 3
    /\ gPrev.var_order = <<>>

\* the paths check_dir is to accept: an existing directory, a built-in
\* directory variable, a reference to a registered variable whose value is
\* an existing directory
ValidDir(path, self, fsys) ==
    \/ isdir(path, fsys)
    \/ path \in {VarRefHome, VarRefPwd, VarRefCurdir}
    \/ \E key \in DOMAIN self.vars :
           /\ path = <<"$", "(">> \o key \o <<")">>
           /\ isdir(self.vars[key].value, fsys)

\* C12 as stated: add_include_dirs / add_link_dirs of one path that is an
\* existing directory, a built-in directory variable, or a reference to a
\* registered variable whose value is an existing directory, passes the
\* directory check: the call raises neither AssertionError nor TypeError.
C12_CheckDirAcceptsValid ==
    (/\ gLast.op \in {"add_include_dirs", "add_link_dirs"}
     /\ Len(gLast.args[1]) = 1
     /\ ValidDir(gLast.args[1][1], gPrev, fs))
        => gLast.err \notin {"AssertionError", "TypeError"}

\* the text of the rule an add_pattern_rule call asks for
RuleText(args) == args[1] \o <<":", " ">> \o args[2] \o <<"\n", "\t">> \o args[3]

\* the calls the claim says fail: an empty argument, a pattern without the
\* wildcard, a rule text that is registered already
RuleRefused(args, self) ==
    \/ \E k \in 1..3 : args[k] = <<>>
    \/ ~HasChar("%", args[1])
    \/ ~HasChar("%", args[2])
    \/ In(RuleText(args), self.pattern_rules)

\* C13: add_pattern_rule raises ValueError and leaves pattern_rules as it
\* was when an argument is empty, when a pattern has no % or when the rule
\* text is registered already; every other call appends the rule text.
C13_PatternRuleValidation ==
    gLast.op = "add_pattern_rule" =>
        IF RuleRefused(gLast.args, gPrev)
        THEN gLast.err = "ValueError" /\ gen.pattern_rules = gPrev.pattern_rules
        ELSE /\ gLast.err = ""
             /\ gen.pattern_rules = Append(gPrev.pattern_rules, RuleText(gLast.args))

\* a rule with a source pattern that has no wildcard is refused while another
\* rule is registered
C13_Witness ==
    /\ gLast.op = "add_pattern_rule"
    /\ gLast.err = "ValueError"
    /\ HasChar("%", gLast.args[1])
    /\ gLast.args[2] # <<>> /\ ~HasChar("%", gLast.args[2])
    /\ gLast.args[3] # <<>>
    /\ gen.pattern_rules # <<>>

\* d1 d2 ...: the dependencies with one space between them
DepsText(deps) ==
    IF Len(deps) = 0 THEN <<>>
    ELSE IF Len(deps) = 1 THEN deps[1]
    ELSE deps[1] \o <<" ">> \o deps[2]

\* the three texts of a target: dependencies only, recipe only, both
TargetText(name, recipe, deps) ==
    IF recipe = <<>> THEN name \o <<":", " ">> \o DepsText(deps)
    ELSE IF deps = <<>> THEN name \o <<":">> \o <<"\n">> \o <<"\t">> \o recipe
    ELSE name \o <<":", " ">> \o DepsText(deps) \o <<"\n">> \o <<"\t">> \o recipe

\* C14: add_target without recipe and without dependencies raises ValueError
\* and registers nothing; any other call that returns has appended exactly
\* the one text of its form to targets, and one that raises found that text
\* registered already.
C14_TargetForms ==
    gLast.op = "add_target" =>
        LET name == gLast.args[1]
            recipe == gLast.args[2]
            deps == gLast.args[3]
        IN  IF recipe = <<>> /\ deps = <<>>
            THEN gLast.err = "ValueError" /\ gen.targets = gPrev.targets
            ELSE IF gLast.err = ""
            THEN gen.targets = Append(gPrev.targets, TargetText(name, recipe, deps))
            ELSE /\ In(TargetText(name, recipe, deps), gPrev.targets)
                 /\ gen.targets = gPrev.targets

\* a target with a recipe and two dependencies is registered after a target
\* with a recipe only
C14_Witness ==
    /\ gLast.op = "add_target"
    /\ gLast.err = ""
    /\ gLast.args[2] # <<>>
    /\ Len(gLast.args[3]) = 2
    /\ \E k \in 1..Len(gPrev.targets) : gPrev.targets[k] = <<"a", ":", "\n", "\t", "r">>

\* C15: in strict and in non-strict mode alike, add_target of a text that is
\* registered raises ValueError and leaves targets as it was, and add_target
\* of a text that is not registered, whatever targets of the same name are
\* there, returns and keeps every earlier target in place before the new one.
C15_DuplicateTargetByText ==
    (/\ gLast.op = "add_target"
     /\ ~(gLast.args[2] = <<>> /\ gLast.args[3] = <<>>))
        => LET text == TargetText(gLast.args[1], gLast.args[2], gLast.args[3])
           IN  IF \E k \in 1..Len(gPrev.targets) : gPrev.targets[k] = text
               THEN gLast.err = "ValueError" /\ gen.targets = gPrev.targets
               ELSE /\ gLast.err = ""
                    /\ Len(gen.targets) = Len(gPrev.targets) + 1
                    /\ \A k \in 1..Len(gPrev.targets) : gen.targets[k] = gPrev.targets[k]
                    /\ gen.targets[Len(gen.targets)] = text

\* a generator that is not strict holds two targets of one name, and the
\* second of them is registered again
C15_Witness ==
    /\ ~gen.strict
    /\ gLast.op = "add_target"
    /\ gLast.err = "ValueError"
    /\ Len(gen.targets) = 2
    /\ StartsWith(gen.targets[1], <<"a", ":">>)
    /\ StartsWith(gen.targets[2], <<"a", ":">>)
    /\ gen.targets[2] = TargetText(gLast.args[1], gLast.args[2], gLast.args[3])

(***************************************************************************)
(* Properties of the Var classes.                                          *)
(***************************************************************************)
\* the assignment operator of each class
OperatorOf(var_type) ==
    CASE var_type = "Var" -> <<"=">>
      [] var_type = "SVar" -> <<":", "=">>
      [] var_type = "IVar" -> <<":", ":", ":", "=">>
      [] var_type = "CVar" -> <<"?", "=">>
      [] var_type = "AVar" -> <<"+", "=">>

\* the lines of every value, in argument order
RECURSIVE ValueLines(_)
ValueLines(values) ==
    IF values = <<>> THEN <<>>
    ELSE SplitLines(Head(values)) \o ValueLines(Tail(values))

\* C16: str() of a Var whose value has no newline is "<key> <op> <value>"
\* with the operator of its class; str() of a Var whose value has a newline,
\* from several values or from inside one value, is a block: a line that
\* starts with "define <key>", then every value line verbatim and in order,
\* then "endef" and the end of the last line.
C16_VarRendering ==
    varLast.op = "__str__" =>
        LET op == OperatorOf(varLast.var_type)
            lines == SplitLines(varLast.result)
        IN  IF Len(varLast.values) = 1 /\ ~HasChar("\n", varLast.values[1])
            THEN varLast.result = varLast.key \o <<" ">> \o op \o <<" ">> \o varLast.values[1]
            ELSE /\ lines[1] = (IF VERSION > 381
                                    THEN <<"d", "e", "f", "i", "n", "e", " ">> \o varLast.key \o <<" ">> \o op
                                    ELSE <<"d", "e", "f", "i", "n", "e", " ">> \o varLast.key)
                 /\ SubSeq(lines, 2, Len(lines) - 2) = ValueLines(varLast.values)
                 /\ lines[Len(lines) - 1] = <<"e", "n", "d", "e", "f">>
                 /\ lines[Len(lines)] = <<>>

\* an AVar of two values, one of them with a newline inside, is rendered
C16_Witness ==
    /\ varLast.op = "__str__"
    /\ varLast.var_type = "AVar"
    /\ Len(varLast.values) = 2
    /\ HasChar("\n", varLast.values[2])

\* the values with a newline between each two
RECURSIVE NewlineJoined(_)
NewlineJoined(values) ==
    IF Len(values) = 1 THEN values[1]
    ELSE values[1] \o <<"\n">> \o NewlineJoined(Tail(values))

\* C17: constructing an object of any of the five classes with no value
\* raises ValueError and gives no object; with one value the object holds
\* the key and that value; with several values it holds the values joined by
\* newlines in argument order.
C17_VarConstruction ==
    varLast.op = "__init__" =>
        IF varLast.values = <<>>
        THEN varLast.err = "ValueError" /\ varObj = NoVar
        ELSE /\ varLast.err = ""
             /\ varObj.key = varLast.key
             /\ varObj.value = NewlineJoined(varLast.values)
             /\ Len(varLast.values) = 1 => varObj.value = varLast.values[1]

\* an SVar constructed with a key and no value
C17_Witness ==
    /\ varLast.op = "__init__"
    /\ varLast.var_type = "SVar"
    /\ varLast.values = <<>>
    /\ varLast.err = "ValueError"

\* a CVar constructed with two values
C17_WitnessJoined ==
    /\ varLast.op = "__init__"
    /\ varLast.var_type = "CVar"
    /\ Len(varLast.values) = 2
    /\ varLast.err = ""

(***************************************************************************)
(* Properties of the directory lists of the Builder.                       *)
(***************************************************************************)
\* the list and the prefix of the two directory methods
DirList(op) == IF op = "add_include_dirs" THEN "_include_dirs" ELSE "_link_dirs"

DirPrefix(op) == IF op = "add_include_dirs" THEN PrefixI ELSE PrefixL

\* C18: after Builder.add_include_dirs / add_link_dirs, every entry of the
\* list is -I / -L followed by an existing directory; every entry of a call
\* whose entries are all existing directories is in the list with its
\* prefix; and a call with an entry that is no existing directory raises
\* AssertionError and leaves that entry out of the list, with and without
\* the prefix.
C18_BuilderDirsChecked ==
    bLast.op \in {"add_include_dirs", "add_link_dirs"} =>
        LET list == builder[DirList(bLast.op)]
            prefix == DirPrefix(bLast.op)
            es == bLast.entries
        IN  /\ \A k \in 1..Len(list) : \E d \in fs.dirs : list[k] = prefix \o d
            /\ (\A k \in 1..Len(es) : isdir(es[k], fs))
                   => \A k \in 1..Len(es) : In(prefix \o es[k], list)
            /\ (\E k \in 1..Len(es) : ~isdir(es[k], fs))
                   => /\ bLast.err = "AssertionError"
                      /\ \A k \in 1..Len(es) :
                             ~isdir(es[k], fs)
                                 => ~In(prefix \o es[k], list) /\ ~In(es[k], list)

\* add_link_dirs of a path that is no directory, after a directory was added
C18_Witness ==
    /\ bLast.op = "add_link_dirs"
    /\ bLast.entries = <<DirNone>>
    /\ bLast.err = "AssertionError"
    /\ builder._link_dirs = <<PrefixL \o DirTmp>>

(***************************************************************************)
(* Properties of the output file of the generator.                         *)
(***************************************************************************)
\* this step is a call of generate()
GenerateCall == gOps' = gOps + 1 /\ gLast'.op = "generate"

\* C19: the file is open from construction, and nothing is written to it,
\* until generate() is called; the first generate() writes every section and
\* then closes the file, once; a closed file is never written or closed
\* again; and a later generate() raises ValueError at its first write and
\* leaves the document as it was.
C19_SinkReleasedByGenerate ==
    /\ [](~writer.closed => writer = Writer_init)
    /\ [](writer.closed => writer.closes = 1 /\ writer.lines # <<>>)
    /\ [][/\ writer.closed => writer' = writer
          /\ (~writer.closed /\ writer'.closed) => GenerateCall
          /\ GenerateCall =>
                 IF writer.closed
                 THEN gLast'.err = "ValueError" /\ writer' = writer
                 ELSE /\ gLast'.err = ""
                      /\ writer'.closed
                      /\ writer'.closes = 1
                      /\ writer'.lines = generate_lines(gen', VERSION)]_vars

\* generate() called a second time on a generator with targets
C19_Witness ==
    /\ gLast.op = "generate"
    /\ gLast.err = "ValueError"
    /\ gen.targets # <<>>
    /\ writer.closed
    /\ writer.closes = 1
    /\ \E k \in 1..Len(writer.lines) : writer.lines[k].section = "_write_targets"

(***************************************************************************)
(* Properties of first() and last().                                       *)
(***************************************************************************)
\* C20: first() and last() leave the list as it is; on a list that is not
\* empty they return the element at position 0 and the element at position
\* -1; on an empty list they raise IndexError.
C20_FirstLast ==
    ulOp.kind \in {"first", "last"} =>
        /\ ul = ulPrev
        /\ IF ul = <<>>
           THEN ulOp.err = "IndexError"
           ELSE /\ ulOp.err = ""
                /\ ulOp.kind = "first" => ulOp.result = Head(ul)
                /\ ulOp.kind = "last" => ulOp.result = ul[Len(ul)]

\* last() on a list of three elements
C20_Witness ==
    /\ ulOp.kind = "last"
    /\ Len(ul) = 3
    /\ ulOp.result = ul[3]

\* first() on an empty list
C20_WitnessEmpty ==
    /\ ulOp.kind = "first"
    /\ ul = <<>>
    /\ ulOp.err = "IndexError"

(***************************************************************************)
(* The command line: cmd_build, cmd_makefile, create_parser and main.      *)
(* The namespace argparse builds is a record; an option that was not given *)
(* is the empty sequence, which the handlers test like None.               *)
(***************************************************************************)
\* text.split(sep, maxsplit) for a separator of one character; a negative
\* maxsplit splits at every separator
RECURSIVE SplitFrom(_, _, _, _)
SplitFrom(text, sep, maxsplit, cur) ==
    IF text = <<>> THEN <<cur>>
    ELSE IF Head(text) = sep /\ maxsplit # 0
        THEN <<cur>> \o SplitFrom(Tail(text), sep, maxsplit - 1, <<>>)
    ELSE SplitFrom(Tail(text), sep, maxsplit, Append(cur, Head(text)))

split(text, sep, maxsplit) == SplitFrom(text, sep, maxsplit, <<>>)

\* text.strip()
strip(text) ==
    LET inked == {i \in 1..Len(text) : text[i] \notin {" ", "\t", "\n"}}
    IN  IF inked = {} THEN <<>>
        ELSE SubSeq(text, CHOOSE i \in inked : \A j \in inked : i <= j,
                          CHOOSE i \in inked : \A j \in inked : j <= i)

\* text.split(): the words between runs of spaces
split_words(text) == SelectSeq(split(text, " ", 0 - 1), LAMBDA w : w # <<>>)

\* the loop over flag groups: a group holding a comma is split at the commas
RECURSIVE FlagGroups(_)
FlagGroups(groups) ==
    IF groups = <<>> THEN <<>>
    ELSE (IF HasChar(",", Head(groups)) THEN split(Head(groups), ",", 0 - 1)
          ELSE <<Head(groups)>>) \o FlagGroups(Tail(groups))

\* how a handler ends: the exception it raised, what it printed, and the
\* file system and the Makefile it leaves
Handled(err, stdout, fsys, document) ==
    [err |-> err, stdout |-> stdout, fs |-> fsys, document |-> document]

\* cmd_build(args), for the options cxx, include_dirs, cxxflags and dry_run
cmd_build(args, status, fsys) ==
    LET b0 == Builder_init(args.target, FALSE)
        b1 == IF args.cxx # <<>> THEN [b0 EXCEPT !._cxx = args.cxx] ELSE b0
        r2 == IF args.include_dirs # <<>>
                  THEN Builder_add(b1, "add_include_dirs", args.include_dirs, fsys)
              ELSE Result(b1, "")
        r3 == IF r2.err = "" /\ args.cxxflags # <<>>
                  THEN Builder_add(r2.self, "add_cxxflags",
                                   FlagGroups(args.cxxflags), fsys)
              ELSE r2
        r4 == IF r3.err = "" THEN Builder_setup_defaults(r3.self, fsys) ELSE r3
    IN  IF r4.err # "" THEN Handled(r4.err, <<>>, fsys, <<>>)
        ELSE LET run == build_body(r4.self, args.dry_run, status, fsys)
             IN  Handled("", run.events, run.fs, <<>>)

\* one call a handler makes: the method and its arguments
Stmt(op, args) == [op |-> op, args |-> args]

\* the call a target definition name:deps:recipe stands for
TargetStmt(target_def) ==
    LET parts == split(target_def, ":", 2)
    IN  Stmt("add_target",
             <<strip(parts[1]),
               IF Len(parts) > 2 /\ strip(parts[3]) # <<>> THEN strip(parts[3])
               ELSE <<>>,
               IF Len(parts) > 1 /\ strip(parts[2]) # <<>>
                   THEN split_words(strip(parts[2]))
               ELSE <<>>>>)

\* the call a pattern definition stands for, or the ValueError raised for a
\* definition that has not three parts
PatternStmt(pattern_def) ==
    LET parts == split(pattern_def, ":", 2)
    IN  IF Len(parts) # 3 THEN Stmt("raise", <<"ValueError">>)
        ELSE Stmt("add_pattern_rule",
                  <<strip(parts[1]), strip(parts[2]), strip(parts[3])>>)

\* the call a variable definition KEY=VALUE stands for
VariableStmt(var_def) ==
    LET kv == split(var_def, "=", 1)
    IN  Stmt("add_variable", <<strip(kv[1]), strip(kv[2])>>)

\* the calls cmd_makefile(args) makes before generate(), in its order, for
\* the options include_dirs, cxxflags, variables, targets and pattern_rules
MakefileStmts(args) ==
    (IF args.include_dirs # <<>>
         THEN <<Stmt("add_include_dirs", args.include_dirs)>> ELSE <<>>)
    \o (IF args.cxxflags # <<>>
            THEN <<Stmt("add_cxxflags", FlagGroups(args.cxxflags))>> ELSE <<>>)
    \o [i \in 1..Len(SelectSeq(args.variables, LAMBDA d : HasChar("=", d))) |->
            VariableStmt(SelectSeq(args.variables, LAMBDA d : HasChar("=", d))[i])]
    \o [i \in 1..Len(args.targets) |-> TargetStmt(args.targets[i])]
    \o [i \in 1..Len(args.pattern_rules) |-> PatternStmt(args.pattern_rules[i])]

\* one call on the generator
GenStmt(self, s, fsys) ==
    IF s.op = "raise" THEN Result(self, s.args[1])
    ELSE IF s.op = "add_variable"
        THEN add_variable(self, s.args[1], s.args[2], "Var")
    ELSE IF s.op = "add_target"
        THEN add_target(self, s.args[1], s.args[2], s.args[3])
    ELSE IF s.op = "add_pattern_rule"
        THEN add_pattern_rule(self, s.args[1], s.args[2], s.args[3])
    ELSE Generator_add(self, s.op, s.args, <<>>, fsys)

\* the calls one after the other, up to the first that raises
RECURSIVE GenStmts(_, _, _)
GenStmts(r, stmts, fsys) ==
    IF stmts = <<>> \/ r.err # "" THEN r
    ELSE GenStmts(GenStmt(r.self, Head(stmts), fsys), Tail(stmts), fsys)

\* the end of cmd_makefile(args): generate() and the closing message
Generated(g, fsys) ==
    IF g.err # "" THEN Handled(g.err, <<>>, fsys, <<>>)
    ELSE Handled("", <<"Generated Makefile">>, fsys, g.writer.lines)

\* the calls of cmd_makefile(args) made: generate() unless one raised
Scripted(r, version, fsys) ==
    IF r.err # "" THEN Handled(r.err, <<>>, fsys, <<>>)
    ELSE Generated(generate(r.self, Writer_init, version, fsys), fsys)

\* cmd_makefile(args): the generator, its compiler, the calls, generate()
\* and the closing message
cmd_makefile(args, version, fsys) ==
    Scripted(GenStmts(Result([Generator_init(FALSE) EXCEPT
                                  !.cxx = IF args.cxx # <<>> THEN args.cxx ELSE @],
                             ""),
                      MakefileStmts(args), fsys),
             version, fsys)

\* create_parser(): bp and mp are the add_argument methods of the two
\* subparsers, and a method has no attribute set_defaults, so the call
\* bp.set_defaults(func=cmd_build) raises before the parser is returned
create_parser == [parser |-> "none", err |-> "AttributeError"]

\* args.func(args): the handler set_defaults would attach to the subcommand
func(args, status, version, fsys) ==
    IF args.command = "build" THEN cmd_build(args, status, fsys)
    ELSE cmd_makefile(args, version, fsys)

\* how the process ends: its exit code and what it wrote to the two streams
Exit(exit_code, stdout, stderr) ==
    [exit_code |-> exit_code, stdout |-> stdout, stderr |-> stderr]

\* an exception nothing catches: the interpreter writes the traceback to the
\* error stream and exits with code 1
Uncaught(err) ==
    Exit(1, <<>>, <<<<"Traceback (most recent call last):">>, <<err>>>>)

\* the try block of main(): an exception of the handler is caught, reported
\* in one line on the error stream, and the process exits with code 1;
\* otherwise main() returns and the process exits with code 0
Tried(h) ==
    IF h.err # "" THEN Exit(1, h.stdout, <<<<"Error: ", h.err>>>>)
    ELSE Exit(0, h.stdout, <<>>)

\* main(): the parser is created and the arguments parsed outside the try
\* block; only the handler runs inside it
main(args, status, version, fsys) ==
    IF create_parser.err # "" THEN Uncaught(create_parser.err)
    ELSE IF args.command = "" THEN Exit(1, <<"usage">>, <<>>)
    ELSE Tried(func(args, status, version, fsys))

(***************************************************************************)
(* The command line as a state machine: a namespace of parsed arguments,   *)
(* then one run of main().                                                 *)
(***************************************************************************)
\* the namespaces of the runs: no subcommand, build and makefile, each with
\* valid and invalid options
CliArgs ==
    {[command |-> c, target |-> IF c = "build" THEN TargetT ELSE <<>>,
      cxx |-> x, include_dirs |-> i, cxxflags |-> f, dry_run |-> d,
      variables |-> v, targets |-> t, pattern_rules |-> p] :
        c \in {"", "build", "makefile"}, x \in {<<>>, StrClang},
        i \in {<<>>, <<DirTmp>>, <<DirNone>>},
        f \in {<<>>, <<<<"-", "O", ",", "-", "W">>>>}, d \in BOOLEAN,
        v \in {<<>>, <<<<"X", "=", "v">>>>},
        t \in {<<>>, <<<<"a", ":", "c", " ", "d">>>>, <<<<"a">>>>, <<<<"a", ":", "c", ":", "r">>>>},
        p \in {<<>>, <<<<"b", "a", "d">>>>, <<<<"%", ".", "o", ":", "%", ".", "c", ":", "r">>>>}}

CliInit ==
    /\ \E args \in CliArgs : cli = [NoRun EXCEPT !.args = args]
    /\ autoLast = ANoCall
    /\ ULIdle
    /\ BIdle
    /\ GIdle
    /\ VIdle

\* the run after the process ended as e
Ended(run, status, e) ==
    [run EXCEPT !.status = status, !.done = TRUE, !.exit_code = e.exit_code,
                !.stdout = e.stdout, !.stderr = e.stderr]

\* python makefilegen.py <arguments>: main() runs to the end of the process
Cli_main ==
    \E status \in {0, 1} :
        /\ ~cli.done
        /\ cli' = Ended(cli, status, main(cli.args, status, VERSION, fs))
        /\ UNCHANGED <<autoLast, ulVars, bVars, gVars, vVars>>

CliNext == Cli_main

SpecCli == CliInit /\ [][CliNext]_vars

\* what the selected handler does with the arguments of the run
Handler == func(cli.args, cli.status, VERSION, fs)

\* C21: a run of main() exits with code 0 when the selected subcommand
\* completes, and with code 1 and a one-line message on the error stream
\* when the subcommand raises; without a subcommand it exits with code 1.
C21_ExitCodes ==
    cli.done =>
        /\ (cli.args.command # "" /\ Handler.err = "") => cli.exit_code = 0
        /\ (cli.args.command # "" /\ Handler.err # "") =>
               (cli.exit_code = 1 /\ Len(cli.stderr) = 1)
        /\ cli.args.command = "" => cli.exit_code = 1

(***************************************************************************)
(* A generator that is given include directives and conditional blocks,    *)
(* valid and invalid, then written.                                        *)
(***************************************************************************)
GBlocksNext ==
    \/ /\ gOps < MaxBlockOps
       /\ G_add_conditional(ConditionalKinds \cup {<<"i", "n", "v", "a", "l", "i", "d">>}, {<<>>, <<"E">>})
    \/ /\ gOps < MaxBlockOps
       /\ G_add_include({<<<<"c", ".", "m", "k">>>>, <<<<"d", ".", "m", "k">>>>, <<<<"d", ".", "m", "k">>, <<"c", ".", "m", "k">>>>, <<<<"c", ".", "m", "k">>, <<"c", ".", "m", "k">>>>})
    \/ /\ gOps < MaxBlockOps
       /\ G_add_include_optional({<<<<"c", ".", "m", "k">>>>, <<<<"d", ".", "m", "k">>, <<"c", ".", "m", "k">>>>})
    \/ /\ gOps < MaxBlockOps
       /\ G_generate

SpecGenBlocks == GInit /\ [][GBlocksNext]_vars

\* the lines of a conditional block the claim describes: the if line that
\* starts with the kind, the then-body, else and the else-body only when an
\* else-body was given, and endif
BlockShape(block, kind, then_body, else_body) ==
    LET lines == SplitLines(block)
        tail == IF else_body # <<>> THEN <<then_body, <<"e", "l", "s", "e">>, else_body, <<"e", "n", "d", "i", "f">>>>
                ELSE <<then_body, <<"e", "n", "d", "i", "f">>>>
    IN  /\ Len(lines) = 1 + Len(tail)
        /\ StartsWith(lines[1], kind)
        /\ SubSeq(lines, 2, Len(lines)) = tail

\* C22: add_conditional registers a block only for the kinds ifeq, ifneq,
\* ifdef and ifndef; any other kind raises and registers nothing. The block
\* is the if line, the then-body, else with the else-body only when one was
\* given, and endif; blocks are appended in call order and never merged, so
\* a block that is registered twice is kept twice.
C22_ConditionalBlocks ==
    gLast.op = "add_conditional" =>
        LET kind == gLast.args[1]
        IN  IF kind \in {<<"i", "f", "e", "q">>, <<"i", "f", "n", "e", "q">>, <<"i", "f", "d", "e", "f">>, <<"i", "f", "n", "d", "e", "f">>}
            THEN /\ gLast.err = ""
                 /\ Len(gen.conditionals) = Len(gPrev.conditionals) + 1
                 /\ SubSeq(gen.conditionals, 1, Len(gPrev.conditionals))
                        = gPrev.conditionals
                 /\ BlockShape(gen.conditionals[Len(gen.conditionals)], kind,
                               gLast.args[3], gLast.args[4])
                 /\ [gen EXCEPT !.conditionals = <<>>]
                        = [gPrev EXCEPT !.conditionals = <<>>]
            ELSE gLast.err # "" /\ gen = gPrev

\* a block with an else-body registered a second time
C22_Witness ==
    /\ gLast.op = "add_conditional"
    /\ gLast.err = ""
    /\ gLast.args[4] # <<>>
    /\ gen.conditionals[Len(gen.conditionals)] \in Range(gPrev.conditionals)

AUTOMATIC_VARIABLES ==
    <<<<<<"$", "@">>, <<"t", "a", "r", "g", "e", "t">>>>, <<<<"$", "<">>, <<"f", "i", "r", "s", "t", " ", "p", "r", "e", "r", "e", "q", "u", "i", "s", "i", "t", "e">>>>,
      <<<<"$", "^">>, <<"a", "l", "l", " ", "p", "r", "e", "r", "e", "q", "u", "i", "s", "i", "t", "e", "s">>>>, <<<<"$", "?">>, <<"n", "e", "w", "e", "r", " ", "p", "r", "e", "r", "e", "q", "u", "i", "s", "i", "t", "e", "s">>>>>>

\* var in AUTOMATIC_VARIABLES
InTable(var) ==
    \E k \in 1..Len(AUTOMATIC_VARIABLES) : AUTOMATIC_VARIABLES[k][1] = var

\* the argument of get_auto_var_help() when none is given
NoneToken == <<"None">>

\* what a module-level function returned, or the exception it raised
Returned(result, err) == [result |-> result, err |-> err]

\* a plausible bug: a lookup that validates nothing
auto_var_unchecked(var) == Returned(var, "")

\* auto_var(var): the token itself when it is in the table
auto_var(var) ==
    IF ~InTable(var) THEN Returned(<<>>, "ValueError")
    ELSE Returned(var, "")

\* one entry of the help text: the token and its description
HelpEntry(entry) == entry[1] \o <<":", " ">> \o entry[2]

\* get_auto_var_help(var): without a token the catalogue of every entry
\* under its title, with a token the entry of that token
get_auto_var_help(var) ==
    IF var = NoneToken
        THEN Returned(Join(NL, <<<<"M", "a", "k", "e", "f", "i", "l", "e", " ", "A", "u", "t", "o", "m", "a", "t", "i", "c", " ", "V", "a", "r", "i", "a", "b", "l", "e", "s", ":">>>>
                                  \o [k \in 1..Len(AUTOMATIC_VARIABLES) |->
                                          HelpEntry(AUTOMATIC_VARIABLES[k])]),
                      "")
    ELSE IF ~InTable(var) THEN Returned(<<>>, "ValueError")
    ELSE Returned(HelpEntry(CHOOSE e \in Range(AUTOMATIC_VARIABLES) : e[1] = var),
                  "")

(***************************************************************************)
(* The registry as a state machine: the two functions called with every    *)
(* token up to a length.                                                   *)
(***************************************************************************)
Tokens == SeqsUpTo({"$", "@", "<", "^", "?", "I", "X"}, MaxTokenLen)

AInit ==
    /\ cli = NoRun
    /\ autoLast = ANoCall
    /\ ULIdle
    /\ BIdle
    /\ GIdle
    /\ VIdle

\* the state after a call that returned or raised r
ACall(op, token, r) ==
    /\ autoLast' = [op |-> op, token |-> token, result |-> r.result, err |-> r.err]
    /\ UNCHANGED <<cli, ulVars, bVars, gVars, vVars>>

\* auto_var(token), get_auto_var_help(token) and get_auto_var_help()
ANext ==
    \/ \E token \in Tokens : ACall("auto_var", token, auto_var(token))
    \/ \E token \in Tokens \cup {NoneToken} :
           ACall("get_auto_var_help", token, get_auto_var_help(token))

SpecAuto == AInit /\ [][ANext]_vars

\* C24: auto_var(token) returns the token unchanged when the token is one of
\* the fixed automatic variables and raises the invalid-variable error for
\* every other token; get_auto_var_help(token) raises the same error for a
\* token that is not one of them.
C24_AutoVarValidation ==
    LET valid == autoLast.token \in {<<"$", "@">>, <<"$", "<">>, <<"$", "^">>, <<"$", "?">>}
    IN  /\ autoLast.op = "auto_var" =>
               IF valid THEN autoLast.err = "" /\ autoLast.result = autoLast.token
               ELSE autoLast.err = "ValueError"
        /\ (autoLast.op = "get_auto_var_help" /\ autoLast.token # NoneToken) =>
               (autoLast.err = "ValueError" <=> ~valid)

\* auto_var was given a token that looks like a variable and is not one
C24_Witness ==
    /\ autoLast.op = "auto_var"
    /\ autoLast.token = <<"$", "X">>
    /\ autoLast.err = "ValueError"

(***************************************************************************)
(* A generator that is given variables by add_var, by add_variable and by  *)
(* the keyword form of the add methods, and entries several at a time,     *)
(* some of them refused part-way through a call.                           *)
(***************************************************************************)
GKwNext ==
    \/ /\ gOps < MaxKwOps
       /\ G_add_var({KeyX}, {<<<<"v">>>>})
    \/ /\ gOps < MaxKwOps
       /\ G_add_variable({KeyX, KeyY}, {<<"u">>}, {"Var"})
    \/ /\ gOps < MaxKwOps
       /\ G_add("add_cflags",
                {<<<<<<"-", "g">>>>, <<>>>>, <<<<<<"-", "O">>, <<"-", "g">>, <<"-", "W">>>>, <<>>>>,
                 <<<<>>, <<<<KeyX, <<"-", "g">>>>>>>>,
                 <<<<>>, <<<<KeyY, <<"-", "O">>>>, <<KeyX, <<"-", "W">>>>>>>>})
    \/ /\ gOps < MaxKwOps
       /\ G_add("add_include_dirs",
                {<<<<DirTmp, DirNone, DirBuild>>, <<>>>>,
                 <<<<>>, <<<<KeyX, DirTmp>>>>>>,
                 <<<<>>, <<<<KeyY, DirTmp>>, <<KeyX, DirNone>>>>>>})

SpecGenKw == GInit /\ [][GKwNext]_vars

\* C25: after any sequence of add_var, add_variable and keyword-form add
\* calls, also of calls that raise part-way, the keys listed in var_order are
\* exactly the keys of vars, and var_order lists no key twice.
C25_OrderMatchesVars ==
    /\ Range(gen.var_order) = DOMAIN gen.vars
    /\ Cardinality(DOMAIN gen.vars) = Len(gen.var_order)

\* a keyword-form call that registered one key and then raised, on a
\* generator that already held another key
C25_Witness ==
    /\ gLast.op = "add_include_dirs"
    /\ gLast.err # ""
    /\ Len(gPrev.var_order) = 1
    /\ Len(gen.var_order) = 2

\* the last call was an add method given one keyword argument, no entries,
\* and a value the method's test accepts
KeywordCall ==
    /\ gLast.op \in DOMAIN GenAddMethods
    /\ gLast.args[1] = <<>>
    /\ Len(gLast.args[2]) = 1
    /\ GenAddMethods[gLast.op].prefix # <<>> => isdir(gLast.args[2][1][2], fs)

\* C29: an add method given KEY=value for a key that is new stores the
\* variable KEY with that value, appends KEY to var_order and appends
\* <prefix>$(KEY) to its collection; for a key that exists it changes
\* nothing when strict is off and raises when strict is on. add_variable
\* of a key that exists replaces the stored variable in both modes.
C29_KeywordForm ==
    /\ KeywordCall =>
           LET key == gLast.args[2][1][1]
               value == gLast.args[2][1][2]
               m == GenAddMethods[gLast.op]
           IN  IF key \notin DOMAIN gPrev.vars
               THEN /\ gLast.err = ""
                    /\ gen.vars = DictSet(gPrev.vars, key,
                                          [key |-> key, assign_op |-> <<"=">>,
                                           value |-> value])
                    /\ gen.var_order = Append(gPrev.var_order, key)
                    /\ gen[m.attr] = Append(gPrev[m.attr],
                                            m.prefix \o <<"$", "(">> \o key \o <<")">>)
               ELSE /\ gen = gPrev
                    /\ gLast.err = (IF gPrev.strict THEN "ValueError" ELSE "")
    /\ (gLast.op = "add_variable" /\ gLast.args[1] \in DOMAIN gPrev.vars) =>
           /\ gLast.err = ""
           /\ gen.vars[gLast.args[1]].value = gLast.args[2]
           /\ gen.var_order = gPrev.var_order

\* a strict generator that holds one key is given a directory under a second
\* key by the keyword form
C29_Witness ==
    /\ KeywordCall
    /\ gLast.op = "add_include_dirs"
    /\ gPrev.strict
    /\ Len(gPrev.var_order) = 1
    /\ Len(gen.var_order) = 2

(***************************************************************************)
(* A generator that is given flags and directories, then written.          *)
(***************************************************************************)
GFlagsNext ==
    \/ /\ gOps < MaxFlagOps
       /\ G_add("add_cflags", {<<<<<<"-", "g">>>>, <<>>>>})
    \/ /\ gOps < MaxFlagOps
       /\ G_add("add_cxxflags", {<<<<<<"-", "O">>>>, <<>>>>, <<<<<<"-", "W">>>>, <<>>>>})
    \/ /\ gOps < MaxFlagOps
       /\ G_add("add_ldflags", {<<<<<<"-", "s">>>>, <<>>>>, <<<<<<"-", "p">>>>, <<>>>>})
    \/ /\ gOps < MaxFlagOps
       /\ G_add("add_ldlibs", {<<<<<<"m">>>>, <<>>>>})
    \/ /\ gOps < MaxFlagOps
       /\ G_add("add_link_dirs", {<<<<DirTmp>>, <<>>>>, <<<<DirBuild>>, <<>>>>})
    \/ /\ gOps < MaxFlagOps
       /\ G_add("add_include_dirs", {<<<<DirTmp>>, <<>>>>})
    \/ /\ gOps < MaxFlagOps
       /\ G_generate

SpecGenFlags == GInit /\ [][GFlagsNext]_vars

\* line k of the document refers to the variable, and no earlier line of
\* the document defines it
Dangling(k, reference, definition) ==
    /\ EndsWith(writer.lines[k].text, reference)
    /\ ~\E j \in 1..(k - 1) : StartsWith(writer.lines[j].text, definition)

\* C26: in every document, a line that refers to $(INCLUDEDIRS) comes after
\* the line that defines INCLUDEDIRS, and a line that refers to $(LINKDIRS)
\* comes after the line that defines LINKDIRS, also when linker flags are
\* registered and no link directory is.
C26_ReferencesDefined ==
    GenerateDone =>
        \A k \in 1..Len(writer.lines) :
            /\ ~Dangling(k, <<"$", "(", "I", "N", "C", "L", "U", "D", "E", "D", "I", "R", "S", ")">>, <<"I", "N", "C", "L", "U", "D", "E", "D", "I", "R", "S", " ", "=", " ">>)
            /\ ~Dangling(k, <<"$", "(", "L", "I", "N", "K", "D", "I", "R", "S", ")">>, <<"L", "I", "N", "K", "D", "I", "R", "S", " ", "=", " ">>)

(***************************************************************************)
(* Properties of repeated builds and of calls refused part-way.            *)
(***************************************************************************)
\* the command a run of build() printed: the argument of its last print
Printed(events) ==
    LET prints == SelectSeq(events, LAMBDA e : e.ev = "print")
    IN  prints[Len(prints)].arg

\* the number of times an entry occurs in a list
Count(entry, list) == Cardinality({k \in 1..Len(list) : list[k] = entry})

WithoutUnusedFields(b) ==
    [b EXCEPT !._cc = <<"g", "c", "c">>, !._cflags = <<>>, !._hppfiles = <<>>,
              !._cleanup_patterns = <<>>, !._cleanup_targets = <<>>]

\* C30: the command depends on the C++ compiler, the C++ flags, the include
\* dirs, the source files, the link libs, the linker flags, the link dirs
\* and the target only: a Builder renders the command of the Builder that
\* differs from it in cc, cflags, hppfiles, cleanup_patterns and
\* cleanup_targets, and build() prints that command.
C30_CommandIgnoresUnusedFields ==
    /\ build_cmd(builder) = build_cmd(WithoutUnusedFields(builder))
    /\ (bLast.op = "build" /\ bLast.err = "") =>
           Printed(trace) = build_cmd(WithoutUnusedFields(builder))

\* a build of a Builder whose C compiler was changed and that holds C flags
C30_Witness ==
    /\ bLast.op = "build"
    /\ builder._cc # <<"g", "c", "c">>
    /\ builder._cflags # <<>>

(***************************************************************************)
(* A Builder and a generator that are given several entries in one call,   *)
(* some of them invalid or, in strict mode, already registered.            *)
(***************************************************************************)
PartInit ==
    /\ \E strict \in BOOLEAN : builder = Builder_init(TargetT, strict)
    /\ bPrev = builder
    /\ bLast = BNoCall
    /\ bOps = 0
    /\ fs = FsInit
    /\ trace = <<>>
    /\ \E strict \in BOOLEAN : gen = Generator_init(strict)
    /\ gPrev = gen
    /\ gLast = GNoCall
    /\ gOps = 0
    /\ gLog = <<>>
    /\ writer = Writer_init
    /\ VERSION = 430
    /\ ULIdle
    /\ VIdle
    /\ MIdle

PartNext ==
    \/ /\ bOps < MaxPartOps
       /\ \E es \in {<<DirTmp, DirNone, DirBuild>>, <<DirBuild>>} :
              BAddCall("add_include_dirs", es)
    \/ /\ bOps < MaxPartOps
       /\ \E es \in {<<<<"-", "W">>>>, <<<<"-", "O">>, <<"-", "W">>, <<"-", "g">>>>} :
              BAddCall("add_cxxflags", es)
    \/ /\ gOps < MaxPartOps
       /\ G_add("add_cflags", {<<<<<<"-", "W">>>>, <<>>>>, <<<<<<"-", "O">>, <<"-", "W">>, <<"-", "g">>>>, <<>>>>})
    \/ /\ gOps < MaxPartOps
       /\ G_add("add_include_dirs", {<<<<DirTmp, DirNone, DirBuild>>, <<>>>>})

SpecPart == PartInit /\ [][PartNext]_vars

\* entry k of a call is one the call refuses: a path that is no directory
\* given to a method that stores directories, or, in strict mode, an entry
\* that is in the collection already
Refused(k, entries, prefix, attr, before) ==
    \/ prefix \in {PrefixI, PrefixL} /\ ~isdir(entries[k], fs)
    \/ before.strict /\ In(entries[k], before[attr])

\* a call that was refused at its entry k: the entries before k are in the
\* collection in call order (one that was there already stays where it
\* was), entry k and the entries after it are not added, and nothing else of
\* the object is changed
RefusedAt(k, entries, prefix, attr, before, after) ==
    /\ Refused(k, entries, prefix, attr, before)
    /\ \A i \in 1..(k - 1) : ~Refused(i, entries, prefix, attr, before)
    /\ after[attr] = FirstOccurrences(before[attr]
                                           \o [i \in 1..(k - 1) |-> prefix \o entries[i]])
    /\ [after EXCEPT ![attr] = <<>>] = [before EXCEPT ![attr] = <<>>]

\* C28: an add call given several entries that is refused part-way is not
\* undone: the entries before the refused one stay registered in call
\* order, the refused entry and the entries after it are not registered,
\* and no other collection changes. This holds for the Builder and for the
\* generator.
C28_PartialBatch ==
    /\ (IsAdd(bLast) /\ bLast.err # "") =>
           \E k \in 1..Len(bLast.entries) :
               RefusedAt(k, bLast.entries, AddMethods[bLast.op].prefix,
                         AddMethods[bLast.op].attr, bPrev, builder)
    /\ (gLast.op \in DOMAIN GenAddMethods /\ gLast.err # "") =>
           \E k \in 1..Len(gLast.args[1]) :
               RefusedAt(k, gLast.args[1], GenAddMethods[gLast.op].prefix,
                         GenAddMethods[gLast.op].attr, gPrev, gen)

\* a Builder call and a generator call of three entries, each refused at its
\* second entry after it registered the first
C28_Witness ==
    /\ IsAdd(bLast) /\ bLast.err # "" /\ Len(bLast.entries) = 3
    /\ Len(builder[AddMethods[bLast.op].attr])
           = Len(bPrev[AddMethods[bLast.op].attr]) + 1
    /\ gLast.op = "add_cflags" /\ gLast.err = "ValueError"
    /\ Len(gen.cflags) = Len(gPrev.cflags) + 1

====
